---- MODULE Spec2Model ----
(***************************************************************************)
(* Chuti-backend: the real-time messaging gateway (services/socketService) *)
(* and its inline content-safety pipeline (contentMonitoringService,       *)
(* moderationMiddleware, messageController, chatController).               *)
(*                                                                         *)
(* The Node.js runtime is single-threaded and cooperative: a handler runs  *)
(* without interruption up to its next `await`.  Every action below is one *)
(* such uninterrupted segment of one handler; the program counter of each  *)
(* in-flight handler is kept in its task record.                           *)
(***************************************************************************)
EXTENDS Integers, Sequences, FiniteSets, TLC

(***************************************************************************)
(* Bounds of the model.                                                    *)
(***************************************************************************)
MaxSockets == 2     \* transport connections ever opened
MaxTasks == 2       \* request handlers ever started (sends, edits, reads, admin)

Users == {"u1", "u2"}
GhostId == "ghost"              \* an id no stored user document has
Rooms == {"r1"}
Sockets == 1..MaxSockets

NoUser == "nouser"
NoSock == 0
NoRoom == "noroom"
NoToken == [sig |-> "absent", userId |-> NoUser]

(***************************************************************************)
(* Bearer tokens: a signature that verifies or not, and the payload id.    *)
(***************************************************************************)
Tokens ==
    {NoToken} \cup
    {[sig |-> "forged", userId |-> "u1"]} \cup
    [sig : {"good"}, userId : Users \cup {GhostId}]

\* jwt.verify(token, secret): the payload, or a throw for a forged signature
jwtVerify(tok) ==
    IF tok.sig = "good" THEN [threw |-> FALSE, userId |-> tok.userId]
    ELSE [threw |-> TRUE, userId |-> NoUser]

\* socket.io channel names: `user_<id>` and `chat_<id>`
userChannel(u) == <<"user", u>>
chatChannel(r) == <<"chat", r>>

VARIABLES
    procState,       \* "running" | "closing" (server.close called) | "exited"
    userActive,      \* User.isActive
    userOnline,      \* User.isOnline
    presenceStatus,  \* User.presenceStatus
    chatActive,      \* Chat.isActive
    participants,    \* Chat.participants: [Rooms -> [Users -> entry]]
    chatLast,        \* Chat.lastMessage (0 = none)
    messages,        \* the Message collection, in insertion order
    sockSt,          \* "idle" | "authLookup" | "refused" | "connected" | "closed"
    sockTok,         \* the token of the handshake
    sockUser,        \* socket.userId
    sockDoc,         \* what User.findById returned to authenticateSocket
    sockErr,         \* number of connect errors delivered to the client
    sockRooms,       \* channels the socket is in
    joinPc,          \* joinUserChats: "none" | "finding" | "done"
    connectedUsers,  \* this.connectedUsers: userId -> socketId
    userSockets,     \* this.userSockets: socketId -> userId
    connSeq,         \* order in which connections were established (0 = never)
    cleanups,        \* number of handleDisconnection runs per socket
    handlerRan,      \* an inbound event handler ran for the socket
    presTasks,       \* pending un-awaited updateUserOnlineStatus calls
    tasks,           \* in-flight and finished request handlers
    emitted,         \* events delivered to connections
    lastEmit         \* the last emitToUser call and what it delivered

gatewayVars ==
    <<procState, userActive, userOnline, presenceStatus, sockSt, sockTok, sockUser, sockDoc,
      sockErr, sockRooms, joinPc, connectedUsers, userSockets, connSeq,
      cleanups, handlerRan, presTasks, lastEmit>>
storeVars == <<chatActive, participants, chatLast, messages>>
vars == <<gatewayVars, storeVars, tasks, emitted>>

(***************************************************************************)
(* Chat model (Models/Chat.js).                                            *)
(***************************************************************************)
NoEntry == [present |-> FALSE, isActive |-> FALSE, role |-> "member"]
Entry(role) == [present |-> TRUE, isActive |-> TRUE, role |-> role]

\* chatSchema.methods.isParticipant on a chat document's participants
isParticipant(parts, u) ==
    \E p \in DOMAIN parts : parts[p].present /\ p = u /\ parts[p].isActive

\* chatSchema.methods.getUserRole
getUserRole(parts, u) ==
    IF \E p \in DOMAIN parts : parts[p].present /\ p = u /\ parts[p].isActive
    THEN parts[u].role ELSE "null"

\* chatSchema.methods.canModerate
canModerate(parts, u) == getUserRole(parts, u) \in {"admin", "moderator"}

\* Chat.find({'participants.user': u, 'participants.isActive': true, isActive: true}):
\* MongoDB matches each dotted condition against ANY element of the array, not
\* necessarily the same one.
userChatsQuery(u) ==
    {r \in Rooms :
        /\ \E p \in Users : participants[r][p].present /\ p = u
        /\ \E p \in Users : participants[r][p].present /\ participants[r][p].isActive
        /\ chatActive[r]}

(***************************************************************************)
(* Connection Gateway (services/socketService).                            *)
(***************************************************************************)
Live(s) == sockSt[s] = "connected"
LiveSockets == {s \in Sockets : Live(s)}
LiveOf(u) == {s \in LiveSockets : sockUser[s] = u}
\* io.to(channel): the live sockets that are in the channel
InChannel(ch) == {s \in LiveSockets : ch \in sockRooms[s]}

\* authenticateSocket without its isActive check
authenticateUser_skipActive(doc) ==
    IF doc = "missing" THEN "User not found" ELSE "ok"

\* authenticateSocket after User.findById resolved with `doc`
\* ("missing" | "inactive" | "active"): the error passed to next(), or "ok"
authenticateUser(doc) ==
    IF doc = "missing" THEN "User not found"
    ELSE IF doc = "inactive" THEN "User account not active"
    ELSE "ok"

findUserById(id) ==
    IF id \notin Users THEN "missing"
    ELSE IF userActive[id] THEN "active" ELSE "inactive"

\* The client opens a connection; authenticateSocket runs up to its await.
Connect(s, tok) ==
    /\ procState = "running"
    /\ sockSt[s] = "idle"
    /\ sockTok' = [sockTok EXCEPT ![s] = tok]
    /\ IF tok = NoToken \/ jwtVerify(tok).threw
       THEN /\ sockSt' = [sockSt EXCEPT ![s] = "refused"]
            /\ sockErr' = [sockErr EXCEPT ![s] = @ + 1]
       ELSE /\ sockSt' = [sockSt EXCEPT ![s] = "authLookup"]
            /\ UNCHANGED sockErr
    /\ UNCHANGED <<procState, userActive, userOnline, presenceStatus, sockUser, sockDoc, sockRooms,
                   joinPc, connectedUsers, userSockets, connSeq, cleanups,
                   handlerRan, presTasks, lastEmit, storeVars, tasks, emitted>>

\* User.findById resolves; on success next() runs the 'connection' handler,
\* which is synchronous: maps, private channel, un-awaited joinUserChats and
\* updateUserOnlineStatus(true), handler registration.
AuthLookup(s) ==
    /\ procState # "exited"
    /\ sockSt[s] = "authLookup"
    /\ LET uid == jwtVerify(sockTok[s]).userId
           doc == findUserById(uid)
       IN /\ sockDoc' = [sockDoc EXCEPT ![s] = doc]
          /\ IF authenticateUser(doc) # "ok"
             THEN /\ sockSt' = [sockSt EXCEPT ![s] = "refused"]
                  /\ sockErr' = [sockErr EXCEPT ![s] = @ + 1]
                  /\ UNCHANGED <<sockUser, sockRooms, joinPc, connectedUsers,
                                 userSockets, connSeq, presTasks>>
             ELSE /\ sockSt' = [sockSt EXCEPT ![s] = "connected"]
                  /\ sockUser' = [sockUser EXCEPT ![s] = uid]
                  /\ connectedUsers' = [connectedUsers EXCEPT ![uid] = s]
                  /\ userSockets' = [userSockets EXCEPT ![s] = uid]
                  /\ sockRooms' = [sockRooms EXCEPT ![s] = {userChannel(uid)}]
                  /\ joinPc' = [joinPc EXCEPT ![s] = "finding"]
                  /\ connSeq' = [connSeq EXCEPT ![s] =
                        Cardinality({x \in Sockets : connSeq[x] > 0}) + 1]
                  /\ presTasks' = presTasks \cup
                        {[sock |-> s, user |-> uid, isOnline |-> TRUE, pc |-> "write"]}
                  /\ UNCHANGED sockErr
    /\ UNCHANGED <<procState, userActive, userOnline, presenceStatus, sockTok, cleanups,
                   handlerRan, lastEmit, storeVars, tasks, emitted>>

\* An emitted event as one connection receives it.
Ev(ev, to, task, user, on) ==
    [ev |-> ev, to |-> to, task |-> task, user |-> user, on |-> on]

\* joinUserChats: Chat.find resolves and the socket joins every returned chat.
JoinUserChatsDone(s) ==
    /\ procState # "exited"
    /\ joinPc[s] = "finding"
    /\ joinPc' = [joinPc EXCEPT ![s] = "done"]
    /\ sockRooms' = [sockRooms EXCEPT ![s] =
            IF Live(s) THEN @ \cup {chatChannel(r) : r \in userChatsQuery(sockUser[s])}
            ELSE @]
    /\ UNCHANGED <<procState, userActive, userOnline, presenceStatus, sockSt, sockTok, sockUser,
                   sockDoc, sockErr, connectedUsers, userSockets, connSeq, cleanups,
                   handlerRan, presTasks, lastEmit, storeVars, tasks, emitted>>

\* socket.on('joinChat'): joins the channel and tells the others in it.
JoinChat(s, r) ==
    /\ procState # "exited"
    /\ Live(s)
    /\ handlerRan' = [handlerRan EXCEPT ![s] = TRUE]
    /\ sockRooms' = [sockRooms EXCEPT ![s] = @ \cup {chatChannel(r)}]
    /\ emitted' = emitted \cup
          {Ev("userJoinedChat", x, 0, sockUser[s], FALSE) :
              x \in InChannel(chatChannel(r)) \ {s}}
    /\ UNCHANGED <<procState, userActive, userOnline, presenceStatus, sockSt, sockTok, sockUser,
                   sockDoc, sockErr, joinPc, connectedUsers, userSockets, connSeq,
                   cleanups, presTasks, lastEmit, storeVars, tasks>>

\* socket.on('leaveChat')
LeaveChat(s, r) ==
    /\ procState # "exited"
    /\ Live(s)
    /\ handlerRan' = [handlerRan EXCEPT ![s] = TRUE]
    /\ sockRooms' = [sockRooms EXCEPT ![s] = @ \ {chatChannel(r)}]
    /\ emitted' = emitted \cup
          {Ev("userLeftChat", x, 0, sockUser[s], FALSE) :
              x \in InChannel(chatChannel(r)) \ {s}}
    /\ UNCHANGED <<procState, userActive, userOnline, presenceStatus, sockSt, sockTok, sockUser,
                   sockDoc, sockErr, joinPc, connectedUsers, userSockets, connSeq,
                   cleanups, presTasks, lastEmit, storeVars, tasks>>

\* Payloads of startTyping / stopTyping: no argument at all, an object without
\* chatId, or an object naming a room.
TypingPayloads == {"undefined", NoRoom} \cup Rooms

\* socket.on('startTyping' | 'stopTyping'): `const { chatId } = data` is outside
\* any try block; destructuring undefined throws, the exception is uncaught and
\* the process-level handler calls process.exit(1).
Typing(s, data) ==
    /\ procState # "exited"
    /\ Live(s)
    /\ handlerRan' = [handlerRan EXCEPT ![s] = TRUE]
    /\ IF data = "undefined"
       THEN /\ procState' = "exited"
            /\ UNCHANGED emitted
       ELSE /\ UNCHANGED procState
            /\ emitted' = emitted \cup
                 IF data = NoRoom THEN {}
                 ELSE {Ev("userTyping", x, 0, sockUser[s], FALSE) :
                          x \in InChannel(chatChannel(data)) \ {s}}
    /\ UNCHANGED <<userActive, userOnline, presenceStatus, sockSt, sockTok, sockUser, sockDoc,
                   sockErr, sockRooms, joinPc, connectedUsers, userSockets, connSeq,
                   cleanups, presTasks, lastEmit, storeVars, tasks>>

\* handleDisconnection(socket): the effect on the two maps
handleDisconnectionUsers(cu, s, uid) == [cu EXCEPT ![uid] = NoSock]
handleDisconnectionSockets(us, s) == [us EXCEPT ![s] = NoUser]

\* The transport closes (client went away, client logged out): socket.io takes
\* the socket out of its rooms and fires 'disconnect' once.
Disconnect(s) ==
    /\ procState # "exited"
    /\ Live(s)
    /\ sockSt' = [sockSt EXCEPT ![s] = "closed"]
    /\ sockRooms' = [sockRooms EXCEPT ![s] = {}]
    /\ connectedUsers' = handleDisconnectionUsers(connectedUsers, s, sockUser[s])
    /\ userSockets' = handleDisconnectionSockets(userSockets, s)
    /\ cleanups' = [cleanups EXCEPT ![s] = @ + 1]
    /\ presTasks' = presTasks \cup
          {[sock |-> s, user |-> sockUser[s], isOnline |-> FALSE, pc |-> "write"]}
    /\ UNCHANGED <<procState, userActive, userOnline, presenceStatus, sockTok, sockUser, sockDoc,
                   sockErr, joinPc, connSeq, handlerRan, lastEmit, storeVars,
                   tasks, emitted>>

\* updateUserOnlineStatus: User.findByIdAndUpdate resolves
PresenceWrite(p) ==
    /\ procState # "exited"
    /\ p \in presTasks /\ p.pc = "write"
    /\ userOnline' = [userOnline EXCEPT ![p.user] = p.isOnline]
    /\ UNCHANGED presenceStatus
    /\ presTasks' = (presTasks \ {p}) \cup {[p EXCEPT !.pc = "find"]}
    /\ UNCHANGED <<procState, userActive, sockSt, sockTok, sockUser, sockDoc,
                   sockErr, sockRooms, joinPc, connectedUsers, userSockets, connSeq,
                   cleanups, handlerRan, lastEmit, storeVars, tasks, emitted>>

\* contacts of u: every participant entry, other than u, of the chats the
\* query returns
contactIds(u) ==
    {c \in Users \ {u} : \E r \in userChatsQuery(u) : participants[r][c].present}

\* updateUserOnlineStatus: Chat.find resolves, presenceUpdate goes to contacts
PresenceEmit(p) ==
    /\ procState # "exited"
    /\ p \in presTasks /\ p.pc = "find"
    /\ presTasks' = presTasks \ {p}
    /\ emitted' = emitted \cup
          {Ev("presenceUpdate", x, 0, p.user, p.isOnline) :
              x \in UNION {InChannel(userChannel(c)) : c \in contactIds(p.user)}}
    /\ UNCHANGED <<procState, userActive, userOnline, presenceStatus, sockSt, sockTok, sockUser,
                   sockDoc, sockErr, sockRooms, joinPc, connectedUsers, userSockets,
                   connSeq, cleanups, handlerRan, lastEmit, storeVars, tasks>>

\* getUserStatus(userId)
getUserStatus(u) == connectedUsers[u] # NoSock

\* emitToUser(userId, event, data): the connections the event is delivered to
emitToUser(u) ==
    IF connectedUsers[u] # NoSock THEN InChannel(userChannel(u)) ELSE {}

\* A controller calls socketService.emitToUser.
EmitToUser(u) ==
    /\ procState # "exited"
    /\ lastEmit' = [user |-> u, to |-> emitToUser(u), live |-> LiveOf(u)]
    /\ UNCHANGED <<procState, userActive, userOnline, presenceStatus, sockSt, sockTok, sockUser,
                   sockDoc, sockErr, sockRooms, joinPc, connectedUsers, userSockets,
                   connSeq, cleanups, handlerRan, presTasks, storeVars, tasks,
                   emitted>>

\* adminController deleteUser / banUser: User.findByIdAndUpdate(isActive: false)
DeactivateUser(u) ==
    /\ procState # "exited"
    /\ userActive[u]
    /\ userActive' = [userActive EXCEPT ![u] = FALSE]
    /\ UNCHANGED <<procState, userOnline, presenceStatus, sockSt, sockTok, sockUser, sockDoc,
                   sockErr, sockRooms, joinPc, connectedUsers, userSockets, connSeq,
                   cleanups, handlerRan, presTasks, lastEmit, storeVars, tasks,
                   emitted>>

\* SIGTERM / SIGINT: gracefulShutdown calls server.close(), which stops
\* accepting connections and waits for the open ones to end.
Shutdown ==
    /\ procState = "running"
    /\ procState' = "closing"
    /\ UNCHANGED <<userActive, userOnline, presenceStatus, sockSt, sockTok, sockUser, sockDoc,
                   sockErr, sockRooms, joinPc, connectedUsers, userSockets, connSeq,
                   cleanups, handlerRan, presTasks, lastEmit, storeVars, tasks,
                   emitted>>

\* server.close's callback: every connection has ended; process.exit(0)
Exit ==
    /\ procState = "closing"
    /\ \A s \in Sockets : sockSt[s] \notin {"authLookup", "connected"}
    /\ procState' = "exited"
    /\ UNCHANGED <<userActive, userOnline, presenceStatus, sockSt, sockTok, sockUser, sockDoc,
                   sockErr, sockRooms, joinPc, connectedUsers, userSockets, connSeq,
                   cleanups, handlerRan, presTasks, lastEmit, storeVars, tasks,
                   emitted>>

(***************************************************************************)
(* Moderation Gateway (middleware/moderationMiddleware,                    *)
(* services/contentMonitoringService).                                     *)
(***************************************************************************)
\* What one POST to the classifier comes to: a response body whose `result`
\* is true or false, or an axios error with its code.
ClassifierOutcomes == {"unsafe", "safe", "ECONNREFUSED", "ECONNABORTED"}
Outages == {"ECONNREFUSED", "ECONNABORTED"}

Contents == {"", "  ", "hi"}
MessageTypes == {"text", "image"}
\* String.prototype.trim on the contents of the model
Trim(c) == IF c = "  " THEN "" ELSE c

\* checkSexualContent failing closed: an unreachable classifier blocks
checkSexualContent_failClosed(text, resp) ==
    IF text = "" \/ Trim(text) = ""
    THEN [is_sexual |-> FALSE, message |-> "Empty text - approved", error |-> "null"]
    ELSE IF resp = "safe"
    THEN [is_sexual |-> FALSE, message |-> "Content approved", error |-> "undefined"]
    ELSE [is_sexual |-> TRUE, message |-> "Sexual content detected - blocked",
          error |-> "undefined"]

\* ContentModerationService.checkSexualContent(text) given the classifier outcome
checkSexualContent(text, resp) ==
    IF text = "" \/ Trim(text) = ""
    THEN [is_sexual |-> FALSE, message |-> "Empty text - approved", error |-> "null"]
    ELSE IF resp \in {"unsafe", "safe"}
    THEN [is_sexual |-> (resp = "unsafe"),
          message |-> IF resp = "unsafe" THEN "Sexual content detected - blocked"
                      ELSE "Content approved",
          error |-> "undefined"]
    ELSE IF resp \in {"ECONNREFUSED", "ETIMEDOUT"}
    THEN [is_sexual |-> FALSE,
          message |-> "Moderation service unavailable - approved",
          error |-> "service_unavailable"]
    ELSE [is_sexual |-> FALSE, message |-> "Moderation error - approved",
          error |-> resp]

\* ContentMonitoringService.quickContentCheck
quickContentCheck(content, resp) ==
    IF checkSexualContent(content, resp).is_sexual
    THEN [blocked |-> TRUE, reason |-> "sexual_content", error |-> "undefined"]
    ELSE [blocked |-> FALSE, reason |-> "undefined", error |-> "undefined"]

\* monitorTextContent dropping the quick check's verdict
monitorTextContent_neverBlocks(content, resp) ==
    [blocked |-> FALSE, reason |-> "undefined", error |-> "undefined"]

\* ContentMonitoringService.monitorTextContent: the verdict handed to sendMessage
monitorTextContent(content, resp) ==
    LET quickCheck == quickContentCheck(content, resp)
    IN IF quickCheck.blocked THEN quickCheck
       ELSE [blocked |-> FALSE, reason |-> "undefined", error |-> "undefined"]

\* monitorTextContent rejecting when the classifier cannot be reached
monitorTextContentRejects_onOutage(content, resp) == resp \in Outages

\* Whether `await monitorTextContent(...)` rejects, which is what takes
\* sendMessage into its fallback call of moderateSocketMessage: it never
\* does, every layer under it (checkSexualContent, quickContentCheck,
\* monitorTextContent) catches its errors and returns a result
monitorTextContentRejects(content, resp) == FALSE

\* sexualContentMiddleware calling next() whatever the classifier answered
sexualContentMiddleware_alwaysNext(content, resp) ==
    [blocked |-> FALSE, reason |-> "undefined",
     error |-> checkSexualContent(content, resp).error]

\* sexualContentMiddleware: the verdict it leaves in req.moderation
sexualContentMiddleware(content, resp) ==
    LET moderation == checkSexualContent(content, resp)
    IN [blocked |-> moderation.is_sexual,
        reason |-> IF moderation.is_sexual THEN "sexual_content" ELSE "undefined",
        error |-> moderation.error]

NoVerdict == [blocked |-> FALSE, reason |-> "none", error |-> "none"]

(***************************************************************************)
(* Request handlers in flight.                                             *)
(***************************************************************************)
NoParts == [u \in Users |-> NoEntry]

\* The reactions array of a message: how many {user, emoji} entries it holds
\* for each pair (the array is not a set: nothing keeps a pair unique).
Emojis == {"", "like"}
ReactionKeys == Users \X (Emojis \ {""})
NoReactions == [k \in ReactionKeys |-> 0]
\* what Message.findById returns of a message for addReaction: the array and
\* the version key __v
NoMsgDoc == [reactions |-> NoReactions, rv |-> 0]

\* no incident has been logged for the request
NoIncident == [logged |-> FALSE, parentNotified |-> FALSE]
NoDoc == [found |-> FALSE, isActive |-> FALSE, parts |-> NoParts]

\* Chat.findById(chatId) at this instant
findChatById(r) ==
    IF r \in Rooms
    THEN [found |-> TRUE, isActive |-> chatActive[r], parts |-> participants[r]]
    ELSE NoDoc

\* u holds an active membership of the active room r in the store right now
MemberNow(u, r) ==
    r \in Rooms /\ chatActive[r] /\ isParticipant(participants[r], u)

\* what a rejected database call throws: error.message
DbErrors == {"MongoNetworkError", "VersionError"}
NoResponse == [message |-> "none", error |-> "none"]

NewTask(kind, u, s, r, content, mtype) ==
    [kind |-> kind, pc |-> "start", user |-> u, sock |-> s, chat |-> r,
     content |-> content, mtype |-> mtype, target |-> NoUser, msgRef |-> 0,
     resp |-> "none", verdict |-> NoVerdict, snap |-> NoDoc, msg |-> 0,
     outcome |-> "none", notif |-> FALSE, age |-> 0, unread |-> {},
     dbError |-> FALSE, alert |-> "none",
     emoji |-> "", mdoc |-> NoMsgDoc, saved |-> NoMsgDoc, ctl |-> "none",
     calls |-> 0, incident |-> NoIncident, response |-> NoResponse,
     wasMember |-> MemberNow(u, r), wrote |-> FALSE]

TaskIds == 1..Len(tasks)
At(t, kind, pc) == t \in TaskIds /\ tasks[t].kind = kind /\ tasks[t].pc = pc

\* the task record after a step: the history flag follows the store
Stepped(rec) == [rec EXCEPT !.wasMember = @ \/ MemberNow(rec.user, rec.chat)]
Finish(rec, outcome) == Stepped([rec EXCEPT !.pc = "done", !.outcome = outcome])

\* socket.emit(...) of the handler's own socket reaches it only while it is open
ToSocket(s, ev, t, u) == IF Live(s) THEN {Ev(ev, s, t, u, FALSE)} ELSE {}

(***************************************************************************)
(* socket.on('sendMessage') (services/socketService).                      *)
(***************************************************************************)
\* The event arrives; validation runs; an image skips the moderation step.
SockSendStart(s, r, content, mtype) ==
    /\ procState # "exited"
    /\ Live(s)
    /\ Len(tasks) < MaxTasks
    /\ handlerRan' = [handlerRan EXCEPT ![s] = TRUE]
    /\ LET t == Len(tasks) + 1
           rec == NewTask("sockSend", sockUser[s], s, r, content, mtype)
       IN IF r = NoRoom \/ content = "" \/ Trim(content) = ""
          THEN /\ tasks' = Append(tasks, Finish(rec, "invalid"))
               /\ emitted' = emitted \cup ToSocket(s, "error", t, sockUser[s])
          ELSE /\ tasks' = Append(tasks,
                     [rec EXCEPT !.pc = IF mtype = "text" THEN "moderating"
                                        ELSE "access"])
               /\ UNCHANGED emitted
    /\ UNCHANGED <<procState, userActive, userOnline, presenceStatus, sockSt, sockTok, sockUser,
                   sockDoc, sockErr, sockRooms, joinPc, connectedUsers, userSockets,
                   connSeq, cleanups, presTasks, lastEmit, storeVars>>

\* monitorTextContent resolves: a blocked message is answered and dropped.
\* `calls` counts the requests made to the classifier: one by
\* monitorTextContent, and one more by the fallback moderateSocketMessage
\* had monitorTextContent rejected
SockModerate(t, resp) ==
    /\ procState # "exited"
    /\ At(t, "sockSend", "moderating")
    /\ LET rec == tasks[t]
           monitoring == monitorTextContent(rec.content, resp)
           fallback == monitorTextContentRejects(rec.content, resp)
           seen == [rec EXCEPT !.resp = resp, !.verdict = monitoring,
                               !.calls = @ + (IF fallback THEN 2 ELSE 1)]
       IN IF monitoring.blocked
          THEN /\ tasks' = [tasks EXCEPT ![t] =
                     Finish([seen EXCEPT !.notif = TRUE, !.alert = "scheduled"],
                            "blocked")]
               /\ emitted' = emitted \cup
                     ToSocket(rec.sock, "messageBlocked", t, rec.user)
          ELSE /\ tasks' = [tasks EXCEPT ![t] = Stepped([seen EXCEPT !.pc = "access"])]
               /\ UNCHANGED emitted
    /\ UNCHANGED <<gatewayVars, storeVars>>

\* SockAccess fanning newMessage out as soon as the access check passes
SockAccess_broadcastsFirst(t) ==
    /\ procState # "exited"
    /\ At(t, "sockSend", "access")
    /\ LET rec == tasks[t]
           chat == findChatById(rec.chat)
       IN IF ~chat.found \/ ~chat.isActive \/ ~isParticipant(chat.parts, rec.user)
          THEN /\ tasks' = [tasks EXCEPT ![t] = Finish(rec, "denied")]
               /\ emitted' = emitted \cup ToSocket(rec.sock, "error", t, rec.user)
          ELSE /\ tasks' = [tasks EXCEPT ![t] =
                     Stepped([rec EXCEPT !.pc = "saving", !.snap = chat])]
               /\ emitted' = emitted \cup
                     {Ev("newMessage", x, t, rec.user, FALSE) :
                         x \in InChannel(chatChannel(rec.chat))}
    /\ UNCHANGED <<gatewayVars, storeVars>>

\* Chat.findById resolves: the access check on the document just read
SockAccess(t) ==
    /\ procState # "exited"
    /\ At(t, "sockSend", "access")
    /\ LET rec == tasks[t]
           chat == findChatById(rec.chat)
       IN IF ~chat.found \/ ~chat.isActive \/ ~isParticipant(chat.parts, rec.user)
          THEN /\ tasks' = [tasks EXCEPT ![t] = Finish(rec, "denied")]
               /\ emitted' = emitted \cup ToSocket(rec.sock, "error", t, rec.user)
          ELSE /\ tasks' = [tasks EXCEPT ![t] =
                     Stepped([rec EXCEPT !.pc = "saving", !.snap = chat])]
               /\ UNCHANGED emitted
    /\ UNCHANGED <<gatewayVars, storeVars>>

\* a Message document as newMessage.save() writes it
NewMessage(rec, t) ==
    [sender |-> rec.user, chat |-> rec.chat, content |-> Trim(rec.content),
     mtype |-> rec.mtype, isDeleted |-> FALSE, isEdited |-> FALSE,
     readBy |-> [u \in Users |-> 0], reactions |-> NoReactions, rv |-> 0,
     task |-> t, authAtWrite |-> MemberNow(rec.user, rec.chat)]

\* SockSave acknowledging the sender as soon as the record is stored
SockSave_acksEarly(t) ==
    /\ procState # "exited"
    /\ At(t, "sockSend", "saving")
    /\ messages' = Append(messages, NewMessage(tasks[t], t))
    /\ tasks' = [tasks EXCEPT ![t] =
          Stepped([@ EXCEPT !.pc = "populating", !.msg = Len(messages) + 1,
                            !.wrote = TRUE])]
    /\ emitted' = emitted \cup ToSocket(tasks[t].sock, "messageSent", t, tasks[t].user)
    /\ UNCHANGED <<gatewayVars, chatActive, participants, chatLast>>

\* newMessage.save() resolves
SockSave(t) ==
    /\ procState # "exited"
    /\ At(t, "sockSend", "saving")
    /\ messages' = Append(messages, NewMessage(tasks[t], t))
    /\ tasks' = [tasks EXCEPT ![t] =
          Stepped([@ EXCEPT !.pc = "populating", !.msg = Len(messages) + 1,
                            !.wrote = TRUE])]
    /\ UNCHANGED <<gatewayVars, chatActive, participants, chatLast, emitted>>

\* newMessage.populate() resolves
SockPopulate(t) ==
    /\ procState # "exited"
    /\ At(t, "sockSend", "populating")
    /\ tasks' = [tasks EXCEPT ![t] = Stepped([@ EXCEPT !.pc = "chatSaving"])]
    /\ UNCHANGED <<gatewayVars, storeVars, emitted>>

\* SockChatSave fanning out only while the sender's connection is open
SockChatSave_onlyIfConnected(t) ==
    /\ procState # "exited"
    /\ At(t, "sockSend", "chatSaving")
    /\ LET rec == tasks[t]
       IN /\ chatLast' = [chatLast EXCEPT ![rec.chat] = rec.msg]
          /\ tasks' = [tasks EXCEPT ![t] = Finish(rec, "sent")]
          /\ emitted' = emitted
                \cup (IF Live(rec.sock)
                      THEN {Ev("newMessage", x, t, rec.user, FALSE) :
                               x \in InChannel(chatChannel(rec.chat))}
                      ELSE {})
                \cup ToSocket(rec.sock, "messageSent", t, rec.user)
    /\ UNCHANGED <<gatewayVars, chatActive, participants, messages>>

\* chat.save() resolves (it writes the two modified paths only); newMessage
\* goes to the room channel and messageSent to the sender
SockChatSave(t) ==
    /\ procState # "exited"
    /\ At(t, "sockSend", "chatSaving")
    /\ LET rec == tasks[t]
       IN /\ chatLast' = [chatLast EXCEPT ![rec.chat] = rec.msg]
          /\ tasks' = [tasks EXCEPT ![t] = Finish(rec, "sent")]
          /\ emitted' = emitted
                \cup {Ev("newMessage", x, t, rec.user, FALSE) :
                         x \in InChannel(chatChannel(rec.chat))}
                \cup ToSocket(rec.sock, "messageSent", t, rec.user)
    /\ UNCHANGED <<gatewayVars, chatActive, participants, messages>>

\* the payload of the socket handler's catch: socket.emit('error', {message})
sockCatchPayload(err) == [message |-> "Failed to send message", error |-> "none"]

\* an awaited database call rejects with `err`: the catch emits 'error'
SockCatch(t, err) ==
    /\ procState # "exited"
    /\ t \in TaskIds /\ tasks[t].kind = "sockSend"
    /\ tasks[t].pc \in {"access", "saving", "populating", "chatSaving"}
    /\ tasks' = [tasks EXCEPT ![t] =
          Finish([@ EXCEPT !.dbError = TRUE, !.response = sockCatchPayload(err)],
                 "failed")]
    /\ emitted' = emitted \cup ToSocket(tasks[t].sock, "error", t, tasks[t].user)
    /\ UNCHANGED <<gatewayVars, storeVars>>

\* one of the awaited database calls rejects: the catch block answers with
\* the generic error
SockDbFail(t) == SockCatch(t, "MongoNetworkError")

(***************************************************************************)
(* Guardian Notifier: the setImmediate callback that                       *)
(* sendParentNotificationAsync schedules for a blocked text                *)
(* (services/contentMonitoringService).  The position of the callback is   *)
(* the task's `alert`: "none" | "scheduled" | "findChat" | "sending" |     *)
(* "sent" | "failed" | "skipped" | "error".                                *)
(***************************************************************************)
\* User.parentEmail: u2 is a child account with a guardian contact, u1 has none
hasParentEmail(u) == u = "u2"

\* the entry logContentIncident writes: sendParentNotificationAsync passes
\* parentNotified: true whatever became of the email
Incident == [logged |-> TRUE, parentNotified |-> TRUE]

\* What User.findById comes to in the callback
SenderLookups == {"found", "missing", "throws"}

\* The callback starts and User.findById resolves: no sender or no
\* parentEmail ends it silently; a rejection is caught and logged.
AlertFindSender(t, res) ==
    /\ procState # "exited"
    /\ t \in TaskIds /\ tasks[t].alert = "scheduled"
    /\ tasks' = [tasks EXCEPT ![t].alert =
          IF res = "throws" THEN "error"
          ELSE IF res = "missing" THEN "skipped"
          ELSE IF ~hasParentEmail(tasks[t].user) THEN "skipped"
          ELSE "findChat"]
    /\ UNCHANGED <<gatewayVars, storeVars, emitted>>

\* Chat.findById(chatId).populate resolves, or rejects into the outer catch
AlertFindChat(t, threw) ==
    /\ procState # "exited"
    /\ t \in TaskIds /\ tasks[t].alert = "findChat"
    /\ tasks' = [tasks EXCEPT ![t].alert = IF threw THEN "error" ELSE "sending"]
    /\ UNCHANGED <<gatewayVars, storeVars, emitted>>

\* AlertSend reporting a failed delivery on the sender's connection
AlertSend_surfacesFailure(t, delivered) ==
    /\ procState # "exited"
    /\ t \in TaskIds /\ tasks[t].alert = "sending"
    /\ tasks' = [tasks EXCEPT ![t].alert = IF delivered THEN "sent" ELSE "failed",
                              ![t].incident = Incident]
    /\ emitted' = emitted \cup
          IF delivered THEN {}
          ELSE ToSocket(tasks[t].sock, "error", t, tasks[t].user)
    /\ UNCHANGED <<gatewayVars, storeVars>>

\* sendParentContentAlert resolves or rejects (the rejection is caught and
\* logged); the incident is logged either way
AlertSend(t, delivered) ==
    /\ procState # "exited"
    /\ t \in TaskIds /\ tasks[t].alert = "sending"
    /\ tasks' = [tasks EXCEPT ![t].alert = IF delivered THEN "sent" ELSE "failed",
                              ![t].incident = Incident]
    /\ UNCHANGED <<gatewayVars, storeVars, emitted>>

(***************************************************************************)
(* POST /api/messages: sexualContentMiddleware, then sendMessage           *)
(* (Routes/messageRoutes, Controllers/messageController).                  *)
(***************************************************************************)
\* the active entries of a chat document: the targets of the REST fan-out
activeParticipants(parts) == {p \in DOMAIN parts : parts[p].present /\ parts[p].isActive}

\* io.to(`user_<p>`) for each p of a set of users
ToUsers(us) == UNION {InChannel(userChannel(p)) : p \in us}

\* The request arrives.  The middleware skips empty content (the controller
\* then rejects it); anything else is sent to the classifier first.
RestSendStart(u, r, content, mtype) ==
    /\ procState # "exited"
    /\ Len(tasks) < MaxTasks
    /\ LET rec == NewTask("restSend", u, NoSock, r, content, mtype)
       IN IF content = "" \/ Trim(content) = ""
          THEN tasks' = Append(tasks, Finish(rec, "invalid"))
          ELSE tasks' = Append(tasks, [rec EXCEPT !.pc = "moderating"])
    /\ UNCHANGED <<gatewayVars, storeVars, emitted>>

\* checkSexualContent resolves in the middleware: 400 for unsafe content,
\* otherwise next() runs the controller up to Chat.findById
RestModerate(t, resp) ==
    /\ procState # "exited"
    /\ At(t, "restSend", "moderating")
    /\ LET rec == tasks[t]
           moderation == sexualContentMiddleware(rec.content, resp)
           seen == [rec EXCEPT !.resp = resp, !.verdict = moderation,
                               !.calls = @ + 1]
       IN tasks' = [tasks EXCEPT ![t] =
            IF moderation.blocked THEN Finish(seen, "blocked")
            ELSE IF rec.chat = NoRoom THEN Finish(seen, "invalid")
            ELSE Stepped([seen EXCEPT !.pc = "access"])]
    /\ UNCHANGED <<gatewayVars, storeVars, emitted>>

\* Chat.findById resolves: 404 / 403, or on to newMessage.save()
RestAccess(t) ==
    /\ procState # "exited"
    /\ At(t, "restSend", "access")
    /\ LET rec == tasks[t]
           chat == findChatById(rec.chat)
       IN tasks' = [tasks EXCEPT ![t] =
            IF ~chat.found \/ ~chat.isActive THEN Finish(rec, "denied")
            ELSE IF ~isParticipant(chat.parts, rec.user) THEN Finish(rec, "denied")
            ELSE Stepped([rec EXCEPT !.pc = "saving", !.snap = chat])]
    /\ UNCHANGED <<gatewayVars, storeVars, emitted>>

\* newMessage.save() resolves
RestSave(t) ==
    /\ procState # "exited"
    /\ At(t, "restSend", "saving")
    /\ messages' = Append(messages, NewMessage(tasks[t], t))
    /\ tasks' = [tasks EXCEPT ![t] =
          Stepped([@ EXCEPT !.pc = "populating", !.msg = Len(messages) + 1,
                            !.wrote = TRUE])]
    /\ UNCHANGED <<gatewayVars, chatActive, participants, chatLast, emitted>>

\* newMessage.populate() resolves
RestPopulate(t) ==
    /\ procState # "exited"
    /\ At(t, "restSend", "populating")
    /\ tasks' = [tasks EXCEPT ![t] = Stepped([@ EXCEPT !.pc = "chatSaving"])]
    /\ UNCHANGED <<gatewayVars, storeVars, emitted>>

\* chat.save() resolves; newMessage goes to the private channel of every
\* active entry of the chat document read earlier; 201
RestChatSave(t) ==
    /\ procState # "exited"
    /\ At(t, "restSend", "chatSaving")
    /\ LET rec == tasks[t]
       IN /\ chatLast' = [chatLast EXCEPT ![rec.chat] = rec.msg]
          /\ tasks' = [tasks EXCEPT ![t] = Finish(rec, "sent")]
          /\ emitted' = emitted \cup
                {Ev("newMessage", x, t, rec.user, FALSE) :
                    x \in ToUsers(activeParticipants(rec.snap.parts))}
    /\ UNCHANGED <<gatewayVars, chatActive, participants, messages>>

\* the body of the controller's catch: 500 {success: false, message, error}
restCatchBody(err) == [message |-> "Failed to send message", error |-> err]

\* an awaited database call rejects with `err`: 500
RestCatch(t, err) ==
    /\ procState # "exited"
    /\ t \in TaskIds /\ tasks[t].kind = "restSend"
    /\ tasks[t].pc \in {"access", "saving", "populating", "chatSaving"}
    /\ tasks' = [tasks EXCEPT ![t] =
          Finish([@ EXCEPT !.dbError = TRUE, !.response = restCatchBody(err)],
                 "failed")]
    /\ UNCHANGED <<gatewayVars, storeVars, emitted>>

\* an awaited database call rejects: 500 'Failed to send message'
RestDbFail(t) == RestCatch(t, "MongoNetworkError")

(***************************************************************************)
(* PUT /api/messages/:id: sexualContentMiddleware, then editMessage.       *)
(***************************************************************************)
EditContents == {"", "yo"}
editTimeLimit == 15            \* minutes
EditAges == {14, 16}           \* minutes since the message was created

\* The request arrives; empty content passes the middleware and is rejected
\* by the controller.
EditStart(u, m, content) ==
    /\ procState # "exited"
    /\ Len(tasks) < MaxTasks
    /\ m \in 1..Len(messages)
    /\ LET rec == [NewTask("edit", u, NoSock, messages[m].chat, content, "text")
                      EXCEPT !.msgRef = m]
       IN IF content = "" \/ Trim(content) = ""
          THEN tasks' = Append(tasks, Finish(rec, "invalid"))
          ELSE tasks' = Append(tasks, [rec EXCEPT !.pc = "moderating"])
    /\ UNCHANGED <<gatewayVars, storeVars, emitted>>

\* checkSexualContent resolves in the middleware
EditModerate(t, resp) ==
    /\ procState # "exited"
    /\ At(t, "edit", "moderating")
    /\ LET rec == tasks[t]
           moderation == sexualContentMiddleware(rec.content, resp)
           seen == [rec EXCEPT !.resp = resp, !.verdict = moderation,
                               !.calls = @ + 1]
       IN tasks' = [tasks EXCEPT ![t] =
            IF moderation.blocked THEN Finish(seen, "blocked")
            ELSE Stepped([seen EXCEPT !.pc = "findMsg"])]
    /\ UNCHANGED <<gatewayVars, storeVars, emitted>>

\* EditFind without the edit time limit
EditFind_noTimeLimit(t, age) ==
    /\ procState # "exited"
    /\ At(t, "edit", "findMsg")
    /\ LET rec == tasks[t]
           message == messages[rec.msgRef]
       IN tasks' = [tasks EXCEPT ![t] =
            IF message.isDeleted THEN Finish(rec, "rejected")
            ELSE IF message.sender # rec.user THEN Finish(rec, "forbidden")
            ELSE Stepped([rec EXCEPT !.pc = "saving", !.age = age])]
    /\ UNCHANGED <<gatewayVars, storeVars, emitted>>

\* Message.findById resolves: deleted / not the sender / too old are
\* rejected; otherwise the document is changed in memory and saved
EditFind(t, age) ==
    /\ procState # "exited"
    /\ At(t, "edit", "findMsg")
    /\ LET rec == tasks[t]
           message == messages[rec.msgRef]
       IN tasks' = [tasks EXCEPT ![t] =
            IF message.isDeleted THEN Finish(rec, "rejected")
            ELSE IF message.sender # rec.user THEN Finish(rec, "forbidden")
            ELSE IF age > editTimeLimit THEN Finish([rec EXCEPT !.age = age], "expired")
            ELSE Stepped([rec EXCEPT !.pc = "saving", !.age = age])]
    /\ UNCHANGED <<gatewayVars, storeVars, emitted>>

\* message.save() resolves: content, isEdited and editedAt are written
EditSave(t) ==
    /\ procState # "exited"
    /\ At(t, "edit", "saving")
    /\ LET rec == tasks[t]
       IN /\ messages' = [messages EXCEPT ![rec.msgRef] =
                [@ EXCEPT !.content = Trim(rec.content), !.isEdited = TRUE]]
          /\ tasks' = [tasks EXCEPT ![t] =
                Stepped([rec EXCEPT !.pc = "findChat", !.wrote = TRUE])]
    /\ UNCHANGED <<gatewayVars, chatActive, participants, chatLast, emitted>>

\* message.populate() and Chat.findById resolve; messageEdited goes to the
\* active participants of the chat as it is now; 200
EditEmit(t) ==
    /\ procState # "exited"
    /\ At(t, "edit", "findChat")
    /\ LET rec == tasks[t]
           chat == findChatById(rec.chat)
       IN /\ tasks' = [tasks EXCEPT ![t] = Finish(rec, "ok")]
          /\ emitted' = emitted \cup
                {Ev("messageEdited", x, t, rec.user, FALSE) :
                    x \in ToUsers(activeParticipants(chat.parts))}
    /\ UNCHANGED <<gatewayVars, storeVars>>

(***************************************************************************)
(* POST /api/messages/:messageId/reaction: addReaction                     *)
(* (Controllers/messageController).                                        *)
(***************************************************************************)
MaxReacts == 4        \* reaction requests in one run

\* message.reactions.findIndex(r => r.user === userId && r.emoji === emoji)
\* finds an entry
hasReaction(reactions, u, emoji) == reactions[<<u, emoji>>] > 0

\* the in-memory toggle: splice of the entry found, or push of a new one
toggleReaction(reactions, u, emoji) ==
    IF hasReaction(reactions, u, emoji)
    THEN [reactions EXCEPT ![<<u, emoji>>] = @ - 1]
    ELSE [reactions EXCEPT ![<<u, emoji>>] = @ + 1]

\* The request arrives; 400 without an emoji
ReactStart(u, m, emoji) ==
    /\ procState # "exited"
    /\ Len(tasks) < MaxReacts
    /\ m \in 1..Len(messages)
    /\ LET rec == [NewTask("react", u, NoSock, messages[m].chat, "", "text")
                      EXCEPT !.msgRef = m, !.emoji = emoji]
       IN tasks' = Append(tasks,
             IF emoji = "" THEN Finish(rec, "invalid")
             ELSE [rec EXCEPT !.pc = "findMsg"])
    /\ UNCHANGED <<gatewayVars, storeVars, emitted>>

\* Message.findById resolves: 404 for a deleted message
ReactFind(t) ==
    /\ procState # "exited"
    /\ At(t, "react", "findMsg")
    /\ LET rec == tasks[t]
           message == messages[rec.msgRef]
       IN tasks' = [tasks EXCEPT ![t] =
            IF message.isDeleted THEN Finish(rec, "rejected")
            ELSE Stepped([rec EXCEPT !.pc = "access",
                    !.mdoc = [reactions |-> message.reactions, rv |-> message.rv]])]
    /\ UNCHANGED <<gatewayVars, storeVars, emitted>>

\* Chat.findById resolves: 403 for a non-participant; otherwise the array is
\* toggled in memory and message.save() is called
ReactAccess(t) ==
    /\ procState # "exited"
    /\ At(t, "react", "access")
    /\ LET rec == tasks[t]
           chat == findChatById(rec.chat)
       IN tasks' = [tasks EXCEPT ![t] =
            IF ~isParticipant(chat.parts, rec.user) THEN Finish(rec, "denied")
            ELSE Stepped([rec EXCEPT !.pc = "saving", !.snap = chat])]
    /\ UNCHANGED <<gatewayVars, storeVars, emitted>>

\* message.save() resolves.  A push is sent as $push and applies to the
\* stored array whatever it holds by now; a splice is sent as $set of the
\* whole array under the condition that __v is the one read, and fails with
\* a VersionError (500) otherwise.  Both increment __v.
ReactSave(t) ==
    /\ procState # "exited"
    /\ At(t, "react", "saving")
    /\ LET rec == tasks[t]
           m == rec.msgRef
           key == <<rec.user, rec.emoji>>
           after == IF hasReaction(rec.mdoc.reactions, rec.user, rec.emoji)
                    THEN toggleReaction(rec.mdoc.reactions, rec.user, rec.emoji)
                    ELSE [messages[m].reactions EXCEPT ![key] = @ + 1]
       IN IF hasReaction(rec.mdoc.reactions, rec.user, rec.emoji)
             /\ messages[m].rv # rec.mdoc.rv
          THEN /\ tasks' = [tasks EXCEPT ![t] =
                     Finish([rec EXCEPT !.dbError = TRUE], "failed")]
               /\ UNCHANGED messages
          ELSE /\ messages' = [messages EXCEPT ![m] =
                     [@ EXCEPT !.reactions = after, !.rv = @ + 1]]
               /\ tasks' = [tasks EXCEPT ![t] =
                     Stepped([rec EXCEPT !.pc = "populating", !.wrote = TRUE,
                        !.saved = [reactions |-> after,
                                   rv |-> messages[m].rv + 1]])]
    /\ UNCHANGED <<gatewayVars, chatActive, participants, chatLast, emitted>>

\* message.populate() resolves; messageReactionUpdated goes to the active
\* entries of the chat document; 200
ReactEmit(t) ==
    /\ procState # "exited"
    /\ At(t, "react", "populating")
    /\ LET rec == tasks[t]
       IN /\ tasks' = [tasks EXCEPT ![t] = Finish(rec, "ok")]
          /\ emitted' = emitted \cup
                {Ev("messageReactionUpdated", x, t, rec.user, FALSE) :
                    x \in ToUsers(activeParticipants(rec.snap.parts))}
    /\ UNCHANGED <<gatewayVars, storeVars>>

(***************************************************************************)
(* DELETE /api/messages/:id: deleteMessage.  The repository holds two      *)
(* message controllers; `ctl` says which one serves the request.           *)
(***************************************************************************)
Controllers == {"messageController", "part_009"}

\* req.user.role, the account's platform role as the auth middleware sets it
accountRole(u) == IF u = "u1" THEN "admin" ELSE "children"

\* canDelete of Controllers/messageController.js
canDelete(message, chat, u) ==
    message.sender = u \/ canModerate(chat.parts, u)

\* canDelete of the second controller: a platform admin may delete as well
canDeleteOrAdmin(message, chat, u) ==
    message.sender = u \/ canModerate(chat.parts, u) \/ accountRole(u) = "admin"

\* The request arrives; the handler awaits Message.findById
DeleteMsgStart(u, m, ctl) ==
    /\ procState # "exited"
    /\ Len(tasks) < MaxTasks
    /\ m \in 1..Len(messages)
    /\ tasks' = Append(tasks,
          [NewTask("deleteMsg", u, NoSock, messages[m].chat, "", "text")
              EXCEPT !.pc = "findMsg", !.msgRef = m, !.ctl = ctl])
    /\ UNCHANGED <<gatewayVars, storeVars, emitted>>

\* Message.findById resolves: 404 (400 in the second controller) for a
\* message already deleted
DeleteMsgFind(t) ==
    /\ procState # "exited"
    /\ At(t, "deleteMsg", "findMsg")
    /\ LET rec == tasks[t]
       IN tasks' = [tasks EXCEPT ![t] =
            IF messages[rec.msgRef].isDeleted THEN Finish(rec, "rejected")
            ELSE Stepped([rec EXCEPT !.pc = "access"])]
    /\ UNCHANGED <<gatewayVars, storeVars, emitted>>

\* Chat.findById resolves: the permission check; 403, or the document is
\* marked deleted in memory and message.save() is called
DeleteMsgAccess(t) ==
    /\ procState # "exited"
    /\ At(t, "deleteMsg", "access")
    /\ LET rec == tasks[t]
           chat == findChatById(rec.chat)
           message == messages[rec.msgRef]
           allowed == IF rec.ctl = "part_009"
                      THEN canDeleteOrAdmin(message, chat, rec.user)
                      ELSE canDelete(message, chat, rec.user)
           seen == [rec EXCEPT !.snap = chat]
       IN tasks' = [tasks EXCEPT ![t] =
            IF ~allowed THEN Finish(seen, "forbidden")
            ELSE Stepped([seen EXCEPT !.pc = "saving"])]
    /\ UNCHANGED <<gatewayVars, storeVars, emitted>>

\* message.save() resolves: the soft delete is stored (the second
\* controller also replaces the content); messageDeleted goes to the active
\* entries of the chat document; 200
DeleteMsgSave(t) ==
    /\ procState # "exited"
    /\ At(t, "deleteMsg", "saving")
    /\ LET rec == tasks[t]
       IN /\ messages' = [messages EXCEPT ![rec.msgRef] =
                [@ EXCEPT !.isDeleted = TRUE,
                          !.content = IF rec.ctl = "part_009"
                                      THEN "This message has been deleted"
                                      ELSE @]]
          /\ tasks' = [tasks EXCEPT ![t] = Finish([rec EXCEPT !.wrote = TRUE], "ok")]
          /\ emitted' = emitted \cup
                {Ev("messageDeleted", x, t, rec.user, FALSE) :
                    x \in ToUsers(activeParticipants(rec.snap.parts))}
    /\ UNCHANGED <<gatewayVars, chatActive, participants, chatLast>>

(***************************************************************************)
(* GET /api/messages/chat/:chatId: getChatMessages.                        *)
(***************************************************************************)
\* The request arrives; the handler awaits Chat.findById (no state changes
\* before it).
ReadStart(u, r) ==
    /\ procState # "exited"
    /\ Len(tasks) < MaxTasks
    /\ tasks' = Append(tasks,
          [NewTask("read", u, NoSock, r, "", "text") EXCEPT !.pc = "access"])
    /\ UNCHANGED <<gatewayVars, storeVars, emitted>>

\* Chat.findById resolves: 404 / 403, or on to Message.find
ReadAccess(t) ==
    /\ procState # "exited"
    /\ At(t, "read", "access")
    /\ LET rec == tasks[t]
           chat == findChatById(rec.chat)
       IN tasks' = [tasks EXCEPT ![t] =
            IF ~chat.found \/ ~chat.isActive THEN Finish(rec, "denied")
            ELSE IF ~isParticipant(chat.parts, rec.user) THEN Finish(rec, "denied")
            ELSE Stepped([rec EXCEPT !.pc = "find", !.snap = chat])]
    /\ UNCHANGED <<gatewayVars, storeVars, emitted>>

\* Message.find resolves: the fetched messages the user has not read yet
ReadFind(t) ==
    /\ procState # "exited"
    /\ At(t, "read", "find")
    /\ LET rec == tasks[t]
           found == {m \in 1..Len(messages) :
                        messages[m].chat = rec.chat /\ ~messages[m].isDeleted}
           unreadMessageIds == {m \in found : messages[m].readBy[rec.user] = 0}
       IN tasks' = [tasks EXCEPT ![t] =
            IF unreadMessageIds = {} THEN Finish(rec, "ok")
            ELSE Stepped([rec EXCEPT !.pc = "mark", !.unread = unreadMessageIds])]
    /\ UNCHANGED <<gatewayVars, storeVars, emitted>>

\* Message.updateMany resolves: $addToSet of a {user, readAt} entry (readAt
\* is new, so the entry is added whether or not the user has one); then
\* messagesRead to the other active participants; 200
ReadMark(t) ==
    /\ procState # "exited"
    /\ At(t, "read", "mark")
    /\ LET rec == tasks[t]
       IN /\ messages' = [m \in 1..Len(messages) |->
                IF m \in rec.unread
                THEN [messages[m] EXCEPT !.readBy[rec.user] = @ + 1]
                ELSE messages[m]]
          /\ tasks' = [tasks EXCEPT ![t] = Finish([rec EXCEPT !.wrote = TRUE], "ok")]
          /\ emitted' = emitted \cup
                {Ev("messagesRead", x, t, rec.user, FALSE) :
                    x \in ToUsers(activeParticipants(rec.snap.parts) \ {rec.user})}
    /\ UNCHANGED <<gatewayVars, chatActive, participants, chatLast>>

(***************************************************************************)
(* socket.on('markMessagesRead') (services/socketService).                 *)
(***************************************************************************)
\* The event arrives with {chatId, messageIds}; a payload without a chat id
\* or whose messageIds is not an array is dropped silently.  The ids a
\* client can name are ids of stored messages.
SockReadStart(s, r, isArray, ids) ==
    /\ procState # "exited"
    /\ Live(s)
    /\ Len(tasks) < MaxTasks
    /\ ids \subseteq 1..Len(messages)
    /\ handlerRan' = [handlerRan EXCEPT ![s] = TRUE]
    /\ LET rec == [NewTask("sockRead", sockUser[s], s, r, "", "text")
                      EXCEPT !.unread = ids]
       IN tasks' = Append(tasks,
             IF r = NoRoom \/ ~isArray THEN Finish(rec, "invalid")
             ELSE [rec EXCEPT !.pc = "updating"])
    /\ UNCHANGED <<procState, userActive, userOnline, presenceStatus, sockSt, sockTok, sockUser,
                   sockDoc, sockErr, sockRooms, joinPc, connectedUsers, userSockets,
                   connSeq, cleanups, presTasks, lastEmit, storeVars, emitted>>

\* the listed documents of the chat, selected without the
\* 'readBy.user': {$ne: userId} condition
markReadFilter_noNe(ids, r, u) ==
    {m \in ids : messages[m].chat = r}

\* the documents Message.updateMany selects in markMessagesRead: listed, of
\* the chat, and without an entry of the user in readBy
markReadFilter(ids, r, u) ==
    {m \in ids : messages[m].chat = r /\ messages[m].readBy[u] = 0}

\* Message.updateMany resolves: a {user, readAt} entry is added to every
\* selected message; messagesRead goes to the other sockets in the channel
\* of the chat
SockReadMark(t) ==
    /\ procState # "exited"
    /\ At(t, "sockRead", "updating")
    /\ LET rec == tasks[t]
           matched == markReadFilter(rec.unread, rec.chat, rec.user)
       IN /\ messages' = [m \in 1..Len(messages) |->
                IF m \in matched
                THEN [messages[m] EXCEPT !.readBy[rec.user] = @ + 1]
                ELSE messages[m]]
          /\ tasks' = [tasks EXCEPT ![t] =
                Finish([rec EXCEPT !.wrote = matched # {}], "ok")]
          /\ emitted' = emitted \cup
                {Ev("messagesRead", x, t, rec.user, FALSE) :
                    x \in InChannel(chatChannel(rec.chat)) \ {rec.sock}}
    /\ UNCHANGED <<gatewayVars, chatActive, participants, chatLast>>

\* Message.updateMany rejects: the catch block only logs
SockReadFail(t) ==
    /\ procState # "exited"
    /\ At(t, "sockRead", "updating")
    /\ tasks' = [tasks EXCEPT ![t] = Finish([@ EXCEPT !.dbError = TRUE], "failed")]
    /\ UNCHANGED <<gatewayVars, storeVars, emitted>>

(***************************************************************************)
(* Membership administration (Controllers/chatController, Models/Chat).    *)
(***************************************************************************)
\* chatSchema.methods.removeParticipant on the document read earlier: the
\* entry, if the document has one, is saved with isActive false
removeParticipant(parts, snapParts, target) ==
    IF snapParts[target].present
    THEN [parts EXCEPT ![target].isActive = FALSE]
    ELSE parts

\* DELETE /api/chat/:chatId/participants/:participantId arrives
RemoveStart(actor, target, r) ==
    /\ procState # "exited"
    /\ Len(tasks) < MaxTasks
    /\ tasks' = Append(tasks,
          [NewTask("remove", actor, NoSock, r, "", "text")
              EXCEPT !.pc = "find", !.target = target])
    /\ UNCHANGED <<gatewayVars, storeVars, emitted>>

\* POST /api/chat/:chatId/leave arrives
LeaveStart(u, r) ==
    /\ procState # "exited"
    /\ Len(tasks) < MaxTasks
    /\ tasks' = Append(tasks,
          [NewTask("leave", u, NoSock, r, "", "text")
              EXCEPT !.pc = "find", !.target = u])
    /\ UNCHANGED <<gatewayVars, storeVars, emitted>>

\* removeParticipant: Chat.findById resolves; permission check (every room
\* of the model is a group chat)
RemoveFind(t) ==
    /\ procState # "exited"
    /\ At(t, "remove", "find")
    /\ LET rec == tasks[t]
           chat == findChatById(rec.chat)
       IN tasks' = [tasks EXCEPT ![t] =
            IF ~chat.found \/ ~chat.isActive THEN Finish(rec, "denied")
            ELSE IF ~canModerate(chat.parts, rec.user) /\ rec.user # rec.target
            THEN Finish(rec, "forbidden")
            ELSE Stepped([rec EXCEPT !.pc = "save", !.snap = chat])]
    /\ UNCHANGED <<gatewayVars, storeVars, emitted>>

\* leaveChat: Chat.findById resolves; the caller must be a participant
LeaveFind(t) ==
    /\ procState # "exited"
    /\ At(t, "leave", "find")
    /\ LET rec == tasks[t]
           chat == findChatById(rec.chat)
       IN tasks' = [tasks EXCEPT ![t] =
            IF ~chat.found \/ ~chat.isActive THEN Finish(rec, "denied")
            ELSE IF ~isParticipant(chat.parts, rec.user) THEN Finish(rec, "rejected")
            ELSE Stepped([rec EXCEPT !.pc = "save", !.snap = chat])]
    /\ UNCHANGED <<gatewayVars, storeVars, emitted>>

\* chat.removeParticipant(...) resolves in removeParticipant or leaveChat;
\* the remaining active entries of the document are notified; 200
RemoveSave(t) ==
    /\ procState # "exited"
    /\ t \in TaskIds /\ tasks[t].kind \in {"remove", "leave"} /\ tasks[t].pc = "save"
    /\ LET rec == tasks[t]
           after == removeParticipant(rec.snap.parts, rec.snap.parts, rec.target)
       IN /\ participants' = [participants EXCEPT ![rec.chat] =
                removeParticipant(@, rec.snap.parts, rec.target)]
          /\ tasks' = [tasks EXCEPT ![t] = Finish([rec EXCEPT !.wrote = TRUE], "ok")]
          /\ emitted' = emitted \cup
                {Ev(IF rec.kind = "remove" THEN "participantRemoved"
                    ELSE "participantLeft", x, t, rec.target, FALSE) :
                    x \in ToUsers(activeParticipants(after) \
                                  (IF rec.kind = "leave" THEN {rec.user} ELSE {}))}
    /\ UNCHANGED <<gatewayVars, chatActive, chatLast, messages>>

\* DELETE /api/chat/:chatId arrives
DeleteChatStart(u, r) ==
    /\ procState # "exited"
    /\ Len(tasks) < MaxTasks
    /\ tasks' = Append(tasks,
          [NewTask("deleteChat", u, NoSock, r, "", "text") EXCEPT !.pc = "find"])
    /\ UNCHANGED <<gatewayVars, storeVars, emitted>>

\* deleteChat: Chat.findById resolves; a participant who can moderate the
\* group may delete it
DeleteChatFind(t) ==
    /\ procState # "exited"
    /\ At(t, "deleteChat", "find")
    /\ LET rec == tasks[t]
           chat == findChatById(rec.chat)
       IN tasks' = [tasks EXCEPT ![t] =
            IF ~chat.found \/ ~chat.isActive THEN Finish(rec, "denied")
            ELSE IF ~isParticipant(chat.parts, rec.user) THEN Finish(rec, "forbidden")
            ELSE IF ~canModerate(chat.parts, rec.user) THEN Finish(rec, "forbidden")
            ELSE Stepped([rec EXCEPT !.pc = "save", !.snap = chat])]
    /\ UNCHANGED <<gatewayVars, storeVars, emitted>>

\* deleteChat: chat.save() resolves with isActive false
DeleteChatSave(t) ==
    /\ procState # "exited"
    /\ At(t, "deleteChat", "save")
    /\ chatActive' = [chatActive EXCEPT ![tasks[t].chat] = FALSE]
    /\ tasks' = [tasks EXCEPT ![t] = Stepped([@ EXCEPT !.pc = "messages", !.wrote = TRUE])]
    /\ UNCHANGED <<gatewayVars, participants, chatLast, messages, emitted>>

\* deleteChat: Message.updateMany resolves (every message of the chat is
\* soft-deleted); chatDeleted goes to the active participants; 200
DeleteChatMessages(t) ==
    /\ procState # "exited"
    /\ At(t, "deleteChat", "messages")
    /\ LET rec == tasks[t]
       IN /\ messages' = [m \in 1..Len(messages) |->
                IF messages[m].chat = rec.chat
                THEN [messages[m] EXCEPT !.isDeleted = TRUE]
                ELSE messages[m]]
          /\ tasks' = [tasks EXCEPT ![t] = Finish(rec, "ok")]
          /\ emitted' = emitted \cup
                {Ev("chatDeleted", x, t, rec.user, FALSE) :
                    x \in ToUsers(activeParticipants(rec.snap.parts))}
    /\ UNCHANGED <<gatewayVars, chatActive, participants, chatLast>>

\* chatSchema.methods.addParticipant: an existing entry is reactivated as a
\* member, otherwise a member entry is pushed
addParticipant(parts, target) ==
    IF parts[target].present
    THEN [parts EXCEPT ![target].isActive = TRUE, ![target].role = "member"]
    ELSE [parts EXCEPT ![target] = Entry("member")]

\* POST /api/chat/:chatId/participants arrives with one participant id
AddStart(actor, target, r) ==
    /\ procState # "exited"
    /\ Len(tasks) < MaxTasks
    /\ tasks' = Append(tasks,
          [NewTask("add", actor, NoSock, r, "", "text")
              EXCEPT !.pc = "find", !.target = target])
    /\ UNCHANGED <<gatewayVars, storeVars, emitted>>

\* addParticipants: Chat.findById resolves; 404, or 403 for a caller who
\* cannot moderate
AddFind(t) ==
    /\ procState # "exited"
    /\ At(t, "add", "find")
    /\ LET rec == tasks[t]
           chat == findChatById(rec.chat)
       IN tasks' = [tasks EXCEPT ![t] =
            IF ~chat.found \/ ~chat.isActive THEN Finish(rec, "denied")
            ELSE IF ~canModerate(chat.parts, rec.user) THEN Finish(rec, "forbidden")
            ELSE Stepped([rec EXCEPT !.pc = "validate", !.snap = chat])]
    /\ UNCHANGED <<gatewayVars, storeVars, emitted>>

\* addParticipants: User.find resolves; 400 for an inactive account; an
\* identity the document already lists as active is not added again
AddValidate(t) ==
    /\ procState # "exited"
    /\ At(t, "add", "validate")
    /\ LET rec == tasks[t]
       IN tasks' = [tasks EXCEPT ![t] =
            IF ~userActive[rec.target] THEN Finish(rec, "invalid")
            ELSE IF isParticipant(rec.snap.parts, rec.target)
            THEN Stepped([rec EXCEPT !.pc = "populate"])
            ELSE Stepped([rec EXCEPT !.pc = "save"])]
    /\ UNCHANGED <<gatewayVars, storeVars, emitted>>

\* addParticipants: chat.addParticipant(...) resolves
AddSave(t) ==
    /\ procState # "exited"
    /\ At(t, "add", "save")
    /\ LET rec == tasks[t]
       IN /\ participants' = [participants EXCEPT ![rec.chat] =
                addParticipant(@, rec.target)]
          /\ tasks' = [tasks EXCEPT ![t] =
                Stepped([rec EXCEPT !.pc = "populate", !.wrote = TRUE,
                                    !.snap.parts = addParticipant(@, rec.target)])]
    /\ UNCHANGED <<gatewayVars, chatActive, chatLast, messages, emitted>>

\* addParticipants: chat.populate() resolves; participantsAdded goes to the
\* private channel of every active entry of the document; 200.  No
\* connection is put into the channel of the chat.
AddPopulate(t) ==
    /\ procState # "exited"
    /\ At(t, "add", "populate")
    /\ LET rec == tasks[t]
       IN /\ tasks' = [tasks EXCEPT ![t] = Finish(rec, "ok")]
          /\ emitted' = emitted \cup
                {Ev("participantsAdded", x, t, rec.target, FALSE) :
                    x \in ToUsers(activeParticipants(rec.snap.parts))}
    /\ UNCHANGED <<gatewayVars, storeVars>>

(***************************************************************************)
(* socket.on('updatePresence') (services/socketService).                   *)
(***************************************************************************)
NoData == "undefined"           \* the event came without an argument
Statuses == {"online", "away"}

\* The event arrives: `const { status } = data` runs inside the try block, so
\* a missing argument ends the handler in its catch.
UpdatePresenceStart(s, data) ==
    /\ procState # "exited"
    /\ Live(s)
    /\ Len(tasks) < MaxTasks
    /\ handlerRan' = [handlerRan EXCEPT ![s] = TRUE]
    /\ LET rec == NewTask("updatePresence", sockUser[s], s, NoRoom, data, "text")
       IN tasks' = Append(tasks,
             IF data = NoData THEN Finish(rec, "failed")
             ELSE [rec EXCEPT !.pc = "write"])
    /\ UNCHANGED <<procState, userActive, userOnline, presenceStatus, sockSt,
                   sockTok, sockUser, sockDoc, sockErr, sockRooms, joinPc,
                   connectedUsers, userSockets, connSeq, cleanups, presTasks,
                   lastEmit, storeVars, emitted>>

\* User.findByIdAndUpdate(socket.userId, {presenceStatus: status}) resolves
UpdatePresenceWrite(t) ==
    /\ procState # "exited"
    /\ At(t, "updatePresence", "write")
    /\ presenceStatus' = [presenceStatus EXCEPT ![tasks[t].user] = tasks[t].content]
    /\ tasks' = [tasks EXCEPT ![t] = [@ EXCEPT !.pc = "find", !.wrote = TRUE]]
    /\ UNCHANGED <<procState, userActive, userOnline, sockSt, sockTok, sockUser,
                   sockDoc, sockErr, sockRooms, joinPc, connectedUsers, userSockets,
                   connSeq, cleanups, handlerRan, presTasks, lastEmit, storeVars,
                   emitted>>

\* Chat.find resolves; socket.to(`user_<contactId>`) for every contact sends
\* presenceUpdate {userId, status} to the channel, the handler's socket excepted
UpdatePresenceEmit(t) ==
    /\ procState # "exited"
    /\ At(t, "updatePresence", "find")
    /\ LET rec == tasks[t]
       IN /\ emitted' = emitted \cup
                {Ev("presenceUpdate", x, t, rec.user, FALSE) :
                    x \in UNION {InChannel(userChannel(c)) : c \in contactIds(rec.user)}
                          \ {rec.sock}}
          /\ tasks' = [tasks EXCEPT ![t] = Finish(rec, "ok")]
    /\ UNCHANGED <<gatewayVars, storeVars>>

(***************************************************************************)
(* POST /api/images/upload: protect, upload.single('image'), uploadImage;  *)
(* monitorImageContent (services/contentMonitoringService).                *)
(***************************************************************************)
NoFile == "nofile"              \* the request carried no image
Images == {"cat.png", "nude.png"}

\* POST /v1/api/check-image for the file: the answer of the image classifier
checkImage(file) == IF file = "nude.png" THEN "unsafe" ELSE "safe"

\* monitorImageContent after the classifier call ended with `resp`: an
\* unreachable classifier leaves is_inappropriate false, so the image passes
monitorImageContent(resp) ==
    IF resp = "unsafe"
    THEN [blocked |-> TRUE, reason |-> "inappropriate_image",
          service_available |-> TRUE]
    ELSE [blocked |-> FALSE, reason |-> "none",
          service_available |-> resp \notin Outages]

\* The request arrives with its file on disk; 400 without chatId or file
UploadStart(u, r, file) ==
    /\ procState # "exited"
    /\ Len(tasks) < MaxTasks
    /\ LET rec == NewTask("upload", u, NoSock, r, file, "image")
       IN tasks' = Append(tasks,
             IF r = NoRoom \/ file = NoFile THEN Finish(rec, "invalid")
             ELSE [rec EXCEPT !.pc = "access"])
    /\ UNCHANGED <<gatewayVars, storeVars, emitted>>

\* Chat.findById resolves: 404 / 403, or on to newMessage.save()
UploadAccess(t) ==
    /\ procState # "exited"
    /\ At(t, "upload", "access")
    /\ LET rec == tasks[t]
           chat == findChatById(rec.chat)
       IN tasks' = [tasks EXCEPT ![t] =
            IF ~chat.found \/ ~chat.isActive THEN Finish(rec, "denied")
            ELSE IF ~isParticipant(chat.parts, rec.user) THEN Finish(rec, "denied")
            ELSE Stepped([rec EXCEPT !.pc = "saving", !.snap = chat])]
    /\ UNCHANGED <<gatewayVars, storeVars, emitted>>

\* newMessage.save() resolves: the image message, its content the file name
UploadSave(t) ==
    /\ procState # "exited"
    /\ At(t, "upload", "saving")
    /\ messages' = Append(messages, NewMessage(tasks[t], t))
    /\ tasks' = [tasks EXCEPT ![t] =
          Stepped([@ EXCEPT !.pc = "populating", !.msg = Len(messages) + 1,
                            !.wrote = TRUE])]
    /\ UNCHANGED <<gatewayVars, chatActive, participants, chatLast, emitted>>

\* newMessage.populate() resolves
UploadPopulate(t) ==
    /\ procState # "exited"
    /\ At(t, "upload", "populating")
    /\ tasks' = [tasks EXCEPT ![t] = Stepped([@ EXCEPT !.pc = "chatSaving"])]
    /\ UNCHANGED <<gatewayVars, storeVars, emitted>>

\* chat.save() resolves; newMessage goes to the private channel of every
\* active entry of the chat document read earlier; 201
UploadChatSave(t) ==
    /\ procState # "exited"
    /\ At(t, "upload", "chatSaving")
    /\ LET rec == tasks[t]
       IN /\ chatLast' = [chatLast EXCEPT ![rec.chat] = rec.msg]
          /\ tasks' = [tasks EXCEPT ![t] = Finish(rec, "sent")]
          /\ emitted' = emitted \cup
                {Ev("newMessage", x, t, rec.user, FALSE) :
                    x \in ToUsers(activeParticipants(rec.snap.parts))}
    /\ UNCHANGED <<gatewayVars, chatActive, participants, messages>>

\* an awaited database call rejects: the file is unlinked; 500
UploadDbFail(t) ==
    /\ procState # "exited"
    /\ t \in TaskIds /\ tasks[t].kind = "upload"
    /\ tasks[t].pc \in {"access", "saving", "populating", "chatSaving"}
    /\ tasks' = [tasks EXCEPT ![t] = Finish([@ EXCEPT !.dbError = TRUE], "failed")]
    /\ UNCHANGED <<gatewayVars, storeVars, emitted>>

(***************************************************************************)
(* Initial states and specifications.                                      *)
(***************************************************************************)
\* The store every run starts from: one group chat, created by u1 (its
\* admin) with u2 as a member.
InitStore ==
    /\ userActive = [u \in Users |-> TRUE]
    /\ chatActive = [r \in Rooms |-> TRUE]
    /\ participants = [r \in Rooms |->
          [u \in Users |-> IF u = "u1" THEN Entry("admin") ELSE Entry("member")]]
    /\ chatLast = [r \in Rooms |-> 0]

\* The server has just started: no connection, no message, no request.
Init ==
    /\ InitStore
    /\ procState = "running"
    /\ userOnline = [u \in Users |-> FALSE]
    /\ presenceStatus = [u \in Users |-> "offline"]
    /\ messages = <<>>
    /\ sockSt = [s \in Sockets |-> "idle"]
    /\ sockTok = [s \in Sockets |-> NoToken]
    /\ sockUser = [s \in Sockets |-> NoUser]
    /\ sockDoc = [s \in Sockets |-> "none"]
    /\ sockErr = [s \in Sockets |-> 0]
    /\ sockRooms = [s \in Sockets |-> {}]
    /\ joinPc = [s \in Sockets |-> "none"]
    /\ connectedUsers = [u \in Users |-> NoSock]
    /\ userSockets = [s \in Sockets |-> NoUser]
    /\ connSeq = [s \in Sockets |-> 0]
    /\ cleanups = [s \in Sockets |-> 0]
    /\ handlerRan = [s \in Sockets |-> FALSE]
    /\ presTasks = {}
    /\ tasks = <<>>
    /\ emitted = {}
    /\ lastEmit = [user |-> NoUser, to |-> {}, live |-> {}]

\* Connection Gateway: connections come and go, clients type, controllers
\* push events, the process is told to stop.
NextGateway ==
    \/ \E s \in Sockets, tok \in Tokens : Connect(s, tok)
    \/ \E s \in Sockets : AuthLookup(s)
    \/ \E s \in Sockets : JoinUserChatsDone(s)
    \/ \E s \in Sockets, data \in TypingPayloads : Typing(s, data)
    \/ \E s \in Sockets : Disconnect(s)
    \/ \E u \in Users : EmitToUser(u)
    \/ Shutdown
    \/ Exit

SpecGateway == Init /\ [][NextGateway]_vars

\* Authentication: handshakes with every kind of token while accounts are
\* deactivated and connected clients send events.
NextAuth ==
    \/ \E s \in Sockets, tok \in Tokens : Connect(s, tok)
    \/ \E s \in Sockets : AuthLookup(s)
    \/ \E s \in Sockets : JoinUserChatsDone(s)
    \/ \E u \in Users : DeactivateUser(u)
    \/ \E s \in Sockets, data \in TypingPayloads : Typing(s, data)
    \/ \E s \in Sockets : Disconnect(s)

SpecAuth == Init /\ [][NextAuth]_vars

\* Connect-time room joining while memberships are administered.
NextJoin ==
    \/ \E s \in Sockets, tok \in Tokens : Connect(s, tok)
    \/ \E s \in Sockets : AuthLookup(s)
    \/ \E s \in Sockets : JoinUserChatsDone(s)
    \/ \E s \in Sockets : Disconnect(s)
    \/ \E a \in Users, b \in Users, r \in Rooms : RemoveStart(a, b, r)
    \/ \E t \in TaskIds : RemoveFind(t)
    \/ \E t \in TaskIds : RemoveSave(t)
    \/ \E u \in Users, r \in Rooms : DeleteChatStart(u, r)
    \/ \E t \in TaskIds : DeleteChatFind(t)
    \/ \E t \in TaskIds : DeleteChatSave(t)
    \/ \E t \in TaskIds : DeleteChatMessages(t)

SpecJoin == Init /\ [][NextJoin]_vars

\* A state of the running server: u1 and u2 are connected (sockets 1 and 2,
\* each in its private channel and in the channel of the chat it belongs
\* to), their presence updates are done, and u2 has sent one message.
InitPipeline ==
    /\ InitStore
    /\ procState = "running"
    /\ userOnline = [u \in Users |-> TRUE]
    /\ presenceStatus = [u \in Users |-> "offline"]
    /\ messages = <<[sender |-> "u2", chat |-> "r1", content |-> "hi",
                     mtype |-> "text", isDeleted |-> FALSE, isEdited |-> FALSE,
                     readBy |-> [u \in Users |-> 0],
                     reactions |-> NoReactions, rv |-> 0, task |-> 0,
                     authAtWrite |-> TRUE]>>
    /\ sockSt = [s \in Sockets |-> IF s <= 2 THEN "connected" ELSE "idle"]
    /\ sockUser = [s \in Sockets |-> IF s = 1 THEN "u1" ELSE IF s = 2 THEN "u2" ELSE NoUser]
    /\ sockTok = [s \in Sockets |->
          IF s <= 2 THEN [sig |-> "good", userId |-> sockUser[s]] ELSE NoToken]
    /\ sockDoc = [s \in Sockets |-> IF s <= 2 THEN "active" ELSE "none"]
    /\ sockErr = [s \in Sockets |-> 0]
    /\ sockRooms = [s \in Sockets |->
          IF s <= 2 THEN {userChannel(sockUser[s]), chatChannel("r1")} ELSE {}]
    /\ joinPc = [s \in Sockets |-> IF s <= 2 THEN "done" ELSE "none"]
    /\ connectedUsers = [u \in Users |-> IF u = "u1" THEN 1 ELSE 2]
    /\ userSockets = [s \in Sockets |-> sockUser[s]]
    /\ connSeq = [s \in Sockets |-> IF s <= 2 THEN s ELSE 0]
    /\ cleanups = [s \in Sockets |-> 0]
    /\ handlerRan = [s \in Sockets |-> FALSE]
    /\ presTasks = {}
    /\ tasks = <<>>
    /\ emitted = {}
    /\ lastEmit = [user |-> NoUser, to |-> {}, live |-> {}]

\* Messaging Pipeline: sends over both paths race with membership changes.
NextPipeline ==
    \/ \E s \in Sockets, r \in Rooms \cup {NoRoom}, c \in Contents, mt \in MessageTypes :
          SockSendStart(s, r, c, mt)
    \/ \E t \in TaskIds, resp \in ClassifierOutcomes : SockModerate(t, resp)
    \/ \E t \in TaskIds : SockAccess(t)
    \/ \E t \in TaskIds : SockSave(t)
    \/ \E t \in TaskIds : SockPopulate(t)
    \/ \E t \in TaskIds : SockChatSave(t)
    \/ \E t \in TaskIds : SockDbFail(t)
    \/ \E u \in Users, r \in Rooms \cup {NoRoom}, c \in Contents, mt \in MessageTypes :
          RestSendStart(u, r, c, mt)
    \/ \E t \in TaskIds, resp \in ClassifierOutcomes : RestModerate(t, resp)
    \/ \E t \in TaskIds : RestAccess(t)
    \/ \E t \in TaskIds : RestSave(t)
    \/ \E t \in TaskIds : RestPopulate(t)
    \/ \E t \in TaskIds : RestChatSave(t)
    \/ \E t \in TaskIds : RestDbFail(t)
    \/ \E a \in Users, b \in Users, r \in Rooms : RemoveStart(a, b, r)
    \/ \E u \in Users, r \in Rooms : LeaveStart(u, r)
    \/ \E t \in TaskIds : RemoveFind(t)
    \/ \E t \in TaskIds : LeaveFind(t)
    \/ \E t \in TaskIds : RemoveSave(t)
    \/ \E u \in Users, r \in Rooms : DeleteChatStart(u, r)
    \/ \E t \in TaskIds : DeleteChatFind(t)
    \/ \E t \in TaskIds : DeleteChatSave(t)
    \/ \E t \in TaskIds : DeleteChatMessages(t)

SpecPipeline == InitPipeline /\ [][NextPipeline]_vars

\* Requests that need a membership (send, edit, read) while participants
\* are removed.
NextAccess ==
    \/ \E s \in Sockets, r \in Rooms \cup {NoRoom}, c \in Contents, mt \in MessageTypes :
          SockSendStart(s, r, c, mt)
    \/ \E t \in TaskIds, resp \in ClassifierOutcomes : SockModerate(t, resp)
    \/ \E t \in TaskIds : SockAccess(t)
    \/ \E t \in TaskIds : SockSave(t)
    \/ \E t \in TaskIds : SockPopulate(t)
    \/ \E t \in TaskIds : SockChatSave(t)
    \/ \E t \in TaskIds : SockDbFail(t)
    \/ \E u \in Users, m \in 1..Len(messages), c \in EditContents : EditStart(u, m, c)
    \/ \E t \in TaskIds, resp \in ClassifierOutcomes : EditModerate(t, resp)
    \/ \E t \in TaskIds, age \in EditAges : EditFind(t, age)
    \/ \E t \in TaskIds : EditSave(t)
    \/ \E t \in TaskIds : EditEmit(t)
    \/ \E u \in Users, r \in Rooms : ReadStart(u, r)
    \/ \E t \in TaskIds : ReadAccess(t)
    \/ \E t \in TaskIds : ReadFind(t)
    \/ \E t \in TaskIds : ReadMark(t)
    \/ \E a \in Users, b \in Users, r \in Rooms : RemoveStart(a, b, r)
    \/ \E t \in TaskIds : RemoveFind(t)
    \/ \E t \in TaskIds : RemoveSave(t)

SpecAccess == InitPipeline /\ [][NextAccess]_vars

\* Moderation: sends over both paths, and the guardian notifier behind the
\* blocked ones.
NextModeration ==
    \/ \E s \in Sockets, r \in Rooms \cup {NoRoom}, c \in Contents, mt \in MessageTypes :
          SockSendStart(s, r, c, mt)
    \/ \E t \in TaskIds, resp \in ClassifierOutcomes : SockModerate(t, resp)
    \/ \E t \in TaskIds : SockAccess(t)
    \/ \E t \in TaskIds : SockSave(t)
    \/ \E t \in TaskIds : SockPopulate(t)
    \/ \E t \in TaskIds : SockChatSave(t)
    \/ \E t \in TaskIds : SockDbFail(t)
    \/ \E u \in Users, r \in Rooms \cup {NoRoom}, c \in Contents, mt \in MessageTypes :
          RestSendStart(u, r, c, mt)
    \/ \E t \in TaskIds, resp \in ClassifierOutcomes : RestModerate(t, resp)
    \/ \E t \in TaskIds : RestAccess(t)
    \/ \E t \in TaskIds : RestSave(t)
    \/ \E t \in TaskIds : RestPopulate(t)
    \/ \E t \in TaskIds : RestChatSave(t)
    \/ \E t \in TaskIds : RestDbFail(t)
    \/ \E t \in TaskIds, res \in SenderLookups : AlertFindSender(t, res)
    \/ \E t \in TaskIds, threw \in BOOLEAN : AlertFindChat(t, threw)
    \/ \E t \in TaskIds, delivered \in BOOLEAN : AlertSend(t, delivered)

SpecModeration == InitPipeline /\ [][NextModeration]_vars

\* Socket sends of text, with the guardian notifier behind the blocked ones.
NextSocketSend ==
    \/ \E s \in Sockets, r \in Rooms \cup {NoRoom}, c \in Contents :
          SockSendStart(s, r, c, "text")
    \/ \E t \in TaskIds, resp \in ClassifierOutcomes : SockModerate(t, resp)
    \/ \E t \in TaskIds : SockAccess(t)
    \/ \E t \in TaskIds : SockSave(t)
    \/ \E t \in TaskIds : SockPopulate(t)
    \/ \E t \in TaskIds : SockChatSave(t)
    \/ \E t \in TaskIds : SockDbFail(t)
    \/ \E t \in TaskIds, res \in SenderLookups : AlertFindSender(t, res)
    \/ \E t \in TaskIds, threw \in BOOLEAN : AlertFindChat(t, threw)
    \/ \E t \in TaskIds, delivered \in BOOLEAN : AlertSend(t, delivered)

SpecSocketSend == InitPipeline /\ [][NextSocketSend]_vars

\* Delivery: valid sends to a room over both paths (images over the socket,
\* which skip the classifier; moderated texts over REST), each database call
\* succeeding or failing.
NextDelivery ==
    \/ \E s \in Sockets, r \in Rooms : SockSendStart(s, r, "hi", "image")
    \/ \E t \in TaskIds : SockAccess(t)
    \/ \E t \in TaskIds : SockSave(t)
    \/ \E t \in TaskIds : SockPopulate(t)
    \/ \E t \in TaskIds : SockChatSave(t)
    \/ \E t \in TaskIds : SockDbFail(t)
    \/ \E u \in Users, r \in Rooms : RestSendStart(u, r, "hi", "text")
    \/ \E t \in TaskIds, resp \in ClassifierOutcomes : RestModerate(t, resp)
    \/ \E t \in TaskIds : RestAccess(t)
    \/ \E t \in TaskIds : RestSave(t)
    \/ \E t \in TaskIds : RestPopulate(t)
    \/ \E t \in TaskIds : RestChatSave(t)
    \/ \E t \in TaskIds : RestDbFail(t)

SpecDelivery == InitPipeline /\ [][NextDelivery]_vars

\* Presence: connections come and go while the un-awaited
\* updateUserOnlineStatus calls they started resolve in any order.
NextPresence ==
    \/ \E s \in Sockets, tok \in Tokens : Connect(s, tok)
    \/ \E s \in Sockets : AuthLookup(s)
    \/ \E s \in Sockets : JoinUserChatsDone(s)
    \/ \E s \in Sockets : Disconnect(s)
    \/ \E p \in presTasks : PresenceWrite(p)
    \/ \E p \in presTasks : PresenceEmit(p)

SpecPresence == Init /\ [][NextPresence]_vars

\* A state of the running server after u1 created the group chat r1 with no
\* other participant: u1 (socket 1) is in its private channel and in the
\* channel of r1; u2 (socket 2) connected too, and joinUserChats found no
\* chat for it.
InitFanout ==
    /\ userActive = [u \in Users |-> TRUE]
    /\ chatActive = [r \in Rooms |-> TRUE]
    /\ participants = [r \in Rooms |->
          [u \in Users |-> IF u = "u1" THEN Entry("admin") ELSE NoEntry]]
    /\ chatLast = [r \in Rooms |-> 0]
    /\ procState = "running"
    /\ userOnline = [u \in Users |-> TRUE]
    /\ presenceStatus = [u \in Users |-> "offline"]
    /\ messages = <<>>
    /\ sockSt = [s \in Sockets |-> IF s <= 2 THEN "connected" ELSE "idle"]
    /\ sockUser = [s \in Sockets |-> IF s = 1 THEN "u1" ELSE IF s = 2 THEN "u2" ELSE NoUser]
    /\ sockTok = [s \in Sockets |->
          IF s <= 2 THEN [sig |-> "good", userId |-> sockUser[s]] ELSE NoToken]
    /\ sockDoc = [s \in Sockets |-> IF s <= 2 THEN "active" ELSE "none"]
    /\ sockErr = [s \in Sockets |-> 0]
    /\ sockRooms = [s \in Sockets |->
          IF s = 1 THEN {userChannel("u1"), chatChannel("r1")}
          ELSE IF s = 2 THEN {userChannel("u2")} ELSE {}]
    /\ joinPc = [s \in Sockets |-> IF s <= 2 THEN "done" ELSE "none"]
    /\ connectedUsers = [u \in Users |-> IF u = "u1" THEN 1 ELSE 2]
    /\ userSockets = [s \in Sockets |-> sockUser[s]]
    /\ connSeq = [s \in Sockets |-> IF s <= 2 THEN s ELSE 0]
    /\ cleanups = [s \in Sockets |-> 0]
    /\ handlerRan = [s \in Sockets |-> FALSE]
    /\ presTasks = {}
    /\ tasks = <<>>
    /\ emitted = {}
    /\ lastEmit = [user |-> NoUser, to |-> {}, live |-> {}]

\* Fan-out: participants are added to the chat while messages are sent over
\* the socket path and clients join channels on their own.
NextFanout ==
    \/ \E a \in Users, b \in Users, r \in Rooms : AddStart(a, b, r)
    \/ \E t \in TaskIds : AddFind(t)
    \/ \E t \in TaskIds : AddValidate(t)
    \/ \E t \in TaskIds : AddSave(t)
    \/ \E t \in TaskIds : AddPopulate(t)
    \/ \E s \in Sockets, r \in Rooms : JoinChat(s, r)
    \/ \E s \in Sockets, r \in Rooms : SockSendStart(s, r, "hi", "image")
    \/ \E t \in TaskIds : SockAccess(t)
    \/ \E t \in TaskIds : SockSave(t)
    \/ \E t \in TaskIds : SockPopulate(t)
    \/ \E t \in TaskIds : SockChatSave(t)
    \/ \E t \in TaskIds : SockDbFail(t)

SpecFanout == InitFanout /\ [][NextFanout]_vars

\* the ids a client can list: those of the messages a run can store
MessageIds == 1..(MaxTasks + 1)

\* Read receipts: clients mark sets of messages read over their sockets
\* while messages are sent.
NextMarkRead ==
    \/ \E s \in Sockets, r \in Rooms \cup {NoRoom}, isArray \in BOOLEAN,
          ids \in SUBSET MessageIds : SockReadStart(s, r, isArray, ids)
    \/ \E t \in TaskIds : SockReadMark(t)
    \/ \E t \in TaskIds : SockReadFail(t)
    \/ \E s \in Sockets, r \in Rooms : SockSendStart(s, r, "hi", "image")
    \/ \E t \in TaskIds : SockAccess(t)
    \/ \E t \in TaskIds : SockSave(t)
    \/ \E t \in TaskIds : SockPopulate(t)
    \/ \E t \in TaskIds : SockChatSave(t)

SpecMarkRead == InitPipeline /\ [][NextMarkRead]_vars

\* Reactions: members and non-members toggle reactions on the stored
\* message, concurrently and one after the other.
NextReact ==
    \/ \E u \in Users, m \in MessageIds, e \in Emojis : ReactStart(u, m, e)
    \/ \E t \in TaskIds : ReactFind(t)
    \/ \E t \in TaskIds : ReactAccess(t)
    \/ \E t \in TaskIds : ReactSave(t)
    \/ \E t \in TaskIds : ReactEmit(t)

SpecReact == InitPipeline /\ [][NextReact]_vars

\* Editing: the sender and the other member edit the stored message, inside
\* and outside the edit window, with every content and classifier outcome.
NextEdit ==
    \/ \E u \in Users, m \in MessageIds, c \in EditContents : EditStart(u, m, c)
    \/ \E t \in TaskIds, resp \in ClassifierOutcomes : EditModerate(t, resp)
    \/ \E t \in TaskIds, age \in EditAges : EditFind(t, age)
    \/ \E t \in TaskIds : EditSave(t)
    \/ \E t \in TaskIds : EditEmit(t)

SpecEdit == InitPipeline /\ [][NextEdit]_vars

\* Deleting messages while members leave the chat or are removed from it.
NextDeleteMsg ==
    \/ \E u \in Users, m \in MessageIds, ctl \in Controllers : DeleteMsgStart(u, m, ctl)
    \/ \E t \in TaskIds : DeleteMsgFind(t)
    \/ \E t \in TaskIds : DeleteMsgAccess(t)
    \/ \E t \in TaskIds : DeleteMsgSave(t)
    \/ \E u \in Users, r \in Rooms : LeaveStart(u, r)
    \/ \E t \in TaskIds : LeaveFind(t)
    \/ \E t \in TaskIds : RemoveSave(t)

SpecDeleteMsg == InitPipeline /\ [][NextDeleteMsg]_vars

\* In-flight sends: connections close while their sends are being moderated,
\* checked and stored.
NextInFlight ==
    \/ \E s \in Sockets, r \in Rooms : SockSendStart(s, r, "hi", "text")
    \/ \E t \in TaskIds, resp \in {"safe", "unsafe"} : SockModerate(t, resp)
    \/ \E t \in TaskIds : SockAccess(t)
    \/ \E t \in TaskIds : SockSave(t)
    \/ \E t \in TaskIds : SockPopulate(t)
    \/ \E t \in TaskIds : SockChatSave(t)
    \/ \E t \in TaskIds : SockDbFail(t)
    \/ \E s \in Sockets : Disconnect(s)

SpecInFlight == InitPipeline /\ [][NextInFlight]_vars

\* Presence updates: connected members set their status while members leave
\* the room.
NextUpdatePresence ==
    \/ \E s \in Sockets, data \in Statuses \cup {NoData} : UpdatePresenceStart(s, data)
    \/ \E t \in TaskIds : UpdatePresenceWrite(t)
    \/ \E t \in TaskIds : UpdatePresenceEmit(t)
    \/ \E u \in Users, r \in Rooms : LeaveStart(u, r)
    \/ \E t \in TaskIds : LeaveFind(t)
    \/ \E t \in TaskIds : RemoveSave(t)
    \/ \E s \in Sockets : Disconnect(s)

SpecUpdatePresence == InitPipeline /\ [][NextUpdatePresence]_vars

\* Image uploads of the members of r1.
NextUpload ==
    \/ \E u \in Users, r \in Rooms \cup {NoRoom}, file \in Images \cup {NoFile} :
          UploadStart(u, r, file)
    \/ \E t \in TaskIds : UploadAccess(t)
    \/ \E t \in TaskIds : UploadSave(t)
    \/ \E t \in TaskIds : UploadPopulate(t)
    \/ \E t \in TaskIds : UploadChatSave(t)
    \/ \E t \in TaskIds : UploadDbFail(t)

SpecUpload == InitPipeline /\ [][NextUpload]_vars

\* Failed sends: database calls of sends on both paths reject with any error.
NextSendFailure ==
    \/ \E s \in Sockets, r \in Rooms : SockSendStart(s, r, "hi", "image")
    \/ \E t \in TaskIds : SockAccess(t)
    \/ \E t \in TaskIds : SockSave(t)
    \/ \E t \in TaskIds : SockPopulate(t)
    \/ \E t \in TaskIds : SockChatSave(t)
    \/ \E t \in TaskIds, err \in DbErrors : SockCatch(t, err)
    \/ \E u \in Users, r \in Rooms : RestSendStart(u, r, "hi", "text")
    \/ \E t \in TaskIds : RestModerate(t, "safe")
    \/ \E t \in TaskIds : RestAccess(t)
    \/ \E t \in TaskIds : RestSave(t)
    \/ \E t \in TaskIds : RestPopulate(t)
    \/ \E t \in TaskIds : RestChatSave(t)
    \/ \E t \in TaskIds, err \in DbErrors : RestCatch(t, err)

SpecSendFailure == InitPipeline /\ [][NextSendFailure]_vars

\* Edits and deletions of the same messages in flight at the same time.
NextEditDelete ==
    \/ \E u \in Users, m \in MessageIds, c \in EditContents : EditStart(u, m, c)
    \/ \E t \in TaskIds : EditModerate(t, "safe")
    \/ \E t \in TaskIds, age \in EditAges : EditFind(t, age)
    \/ \E t \in TaskIds : EditSave(t)
    \/ \E t \in TaskIds : EditEmit(t)
    \/ \E u \in Users, m \in MessageIds, ctl \in Controllers : DeleteMsgStart(u, m, ctl)
    \/ \E t \in TaskIds : DeleteMsgFind(t)
    \/ \E t \in TaskIds : DeleteMsgAccess(t)
    \/ \E t \in TaskIds : DeleteMsgSave(t)

SpecEditDelete == InitPipeline /\ [][NextEditDelete]_vars

\* Mark-read events of connections whose identities leave the room.
NextReadMembership ==
    \/ \E s \in Sockets, r \in Rooms \cup {NoRoom}, isArray \in BOOLEAN,
          ids \in SUBSET MessageIds : SockReadStart(s, r, isArray, ids)
    \/ \E t \in TaskIds : SockReadMark(t)
    \/ \E t \in TaskIds : SockReadFail(t)
    \/ \E u \in Users, r \in Rooms : LeaveStart(u, r)
    \/ \E t \in TaskIds : LeaveFind(t)
    \/ \E t \in TaskIds : RemoveSave(t)

SpecReadMembership == InitPipeline /\ [][NextReadMembership]_vars

\* The whole server: every handler of the model, from a fresh start.
Next ==
    \/ NextGateway
    \/ NextPipeline
    \/ \E u \in Users : DeactivateUser(u)
    \/ \E s \in Sockets, r \in Rooms : JoinChat(s, r)
    \/ \E s \in Sockets, r \in Rooms : LeaveChat(s, r)
    \/ \E p \in presTasks : PresenceWrite(p)
    \/ \E p \in presTasks : PresenceEmit(p)
    \/ \E t \in TaskIds, res \in SenderLookups : AlertFindSender(t, res)
    \/ \E t \in TaskIds, threw \in BOOLEAN : AlertFindChat(t, threw)
    \/ \E t \in TaskIds, delivered \in BOOLEAN : AlertSend(t, delivered)
    \/ \E u \in Users, m \in 1..Len(messages), c \in EditContents : EditStart(u, m, c)
    \/ \E t \in TaskIds, resp \in ClassifierOutcomes : EditModerate(t, resp)
    \/ \E t \in TaskIds, age \in EditAges : EditFind(t, age)
    \/ \E t \in TaskIds : EditSave(t)
    \/ \E t \in TaskIds : EditEmit(t)
    \/ \E u \in Users, r \in Rooms : ReadStart(u, r)
    \/ \E t \in TaskIds : ReadAccess(t)
    \/ \E t \in TaskIds : ReadFind(t)
    \/ \E t \in TaskIds : ReadMark(t)
    \/ \E a \in Users, b \in Users, r \in Rooms : AddStart(a, b, r)
    \/ \E t \in TaskIds : AddFind(t)
    \/ \E t \in TaskIds : AddValidate(t)
    \/ \E t \in TaskIds : AddSave(t)
    \/ \E t \in TaskIds : AddPopulate(t)
    \/ \E s \in Sockets, r \in Rooms \cup {NoRoom}, isArray \in BOOLEAN,
          ids \in SUBSET MessageIds : SockReadStart(s, r, isArray, ids)
    \/ \E t \in TaskIds : SockReadMark(t)
    \/ \E t \in TaskIds : SockReadFail(t)
    \/ \E u \in Users, m \in MessageIds, e \in Emojis : ReactStart(u, m, e)
    \/ \E t \in TaskIds : ReactFind(t)
    \/ \E t \in TaskIds : ReactAccess(t)
    \/ \E t \in TaskIds : ReactSave(t)
    \/ \E t \in TaskIds : ReactEmit(t)
    \/ \E u \in Users, m \in MessageIds, ctl \in Controllers : DeleteMsgStart(u, m, ctl)
    \/ \E t \in TaskIds : DeleteMsgFind(t)
    \/ \E t \in TaskIds : DeleteMsgAccess(t)
    \/ \E t \in TaskIds : DeleteMsgSave(t)
    \/ \E s \in Sockets, data \in Statuses \cup {NoData} : UpdatePresenceStart(s, data)
    \/ \E t \in TaskIds : UpdatePresenceWrite(t)
    \/ \E t \in TaskIds : UpdatePresenceEmit(t)
    \/ \E u \in Users, r \in Rooms \cup {NoRoom}, file \in Images \cup {NoFile} :
          UploadStart(u, r, file)
    \/ \E t \in TaskIds : UploadAccess(t)
    \/ \E t \in TaskIds : UploadSave(t)
    \/ \E t \in TaskIds : UploadPopulate(t)
    \/ \E t \in TaskIds : UploadChatSave(t)
    \/ \E t \in TaskIds : UploadDbFail(t)

Spec == Init /\ [][Next]_vars

(***************************************************************************)
(* Messaging Pipeline properties.                                          *)
(***************************************************************************)
Sends == {t \in TaskIds : tasks[t].kind \in {"sockSend", "restSend"}}
StoredBy(t) == {m \in 1..Len(messages) : messages[m].task = t}
NewMessagesOf(t) == {e \in emitted : e.ev = "newMessage" /\ e.task = t}

\* C1: a text send for which the classifier answered unsafe is answered
\* blocked, stores no Message and emits no newMessage to any connection.
C1_UnsafeNeverStoredNorBroadcast ==
    \A t \in Sends :
        (tasks[t].mtype = "text" /\ tasks[t].resp = "unsafe") =>
            /\ tasks[t].outcome = "blocked"
            /\ tasks[t].msg = 0
            /\ StoredBy(t) = {}
            /\ NewMessagesOf(t) = {}

\* C1 witness: an unsafe text was sent over the socket and another over REST,
\* while a message of an approved send exists.
C1_Witness ==
    \E t, x \in Sends :
        /\ tasks[t].kind = "sockSend" /\ tasks[t].mtype = "text"
        /\ tasks[t].resp = "unsafe" /\ tasks[t].pc = "done"
        /\ tasks[x].kind = "restSend" /\ tasks[x].mtype = "text"
        /\ tasks[x].resp = "unsafe" /\ tasks[x].pc = "done"

Requests == {t \in TaskIds : tasks[t].kind \in {"sockSend", "restSend", "edit", "read"}}

\* C2: a send, edit or read whose requester held no active membership of the
\* room at any point of its handling is rejected and writes nothing.
C2_NonMemberRejected ==
    \A t \in Requests :
        (tasks[t].pc = "done" /\ ~tasks[t].wasMember) =>
            /\ tasks[t].outcome \notin {"sent", "ok"}
            /\ ~tasks[t].wrote

\* C3: every stored Message was written while its sender was an active
\* participant of the active room.
C3_SenderActiveAtWrite ==
    \A m \in 1..Len(messages) : messages[m].authAtWrite

\* C4: a send whose classifier call failed is not blocked; it goes on as an
\* approved one does: it can only end invalid (REST, no chat id), denied by
\* the access check, failed by a database error, or sent; and when sent it was
\* stored, fanned out and acknowledged.
C4_OutageFailsOpen ==
    \A t \in Sends :
        tasks[t].resp \in Outages =>
            /\ ~tasks[t].verdict.blocked
            /\ tasks[t].outcome # "blocked"
            /\ ~tasks[t].notif
            /\ tasks[t].pc \in {"access", "saving", "populating", "chatSaving", "done"}
            /\ tasks[t].outcome = "failed" => tasks[t].dbError
            /\ tasks[t].outcome = "invalid" =>
                  (tasks[t].kind = "restSend" /\ tasks[t].chat = NoRoom)
            /\ tasks[t].outcome = "sent" =>
                  /\ StoredBy(t) = {tasks[t].msg}
                  /\ chatLast[tasks[t].chat] # 0

\* C4 witness: a socket send and a REST send went through to "sent" although
\* the classifier was unreachable for both.
C4_Witness ==
    \E t, x \in Sends :
        /\ tasks[t].kind = "sockSend" /\ tasks[t].resp = "ECONNABORTED"
        /\ tasks[t].outcome = "sent" /\ NewMessagesOf(t) # {}
        /\ tasks[x].kind = "restSend" /\ tasks[x].resp = "ECONNREFUSED"
        /\ tasks[x].outcome = "sent"

\* the verdict the path of task t obtains when the classifier approves
ApprovedVerdict(t) ==
    IF tasks[t].kind = "sockSend" THEN monitorTextContent(tasks[t].content, "safe")
    ELSE sexualContentMiddleware(tasks[t].content, "safe")

\* C5: the verdict obtained for a send approved because the classifier was
\* unreachable carries the service-unavailable reason, so it differs from
\* the verdict of a send the classifier approved.
C5_FallbackDistinguishable ==
    \A t \in Sends :
        tasks[t].resp \in Outages =>
            /\ tasks[t].verdict # ApprovedVerdict(t)
            /\ tasks[t].verdict.error # "undefined"

(***************************************************************************)
(* Connection Gateway properties.                                          *)
(***************************************************************************)
Established(s) == connSeq[s] > 0

\* C6: a connection gets a map entry, a channel, a joinUserChats run or an
\* event handler run only after authenticateSocket accepted it, which takes
\* a token that verifies and names a stored, active user; every other
\* handshake is refused with exactly one error and is never connected.
C6_AuthBeforeDispatch ==
    \A s \in Sockets :
        /\ sockErr[s] <= 1
        /\ sockSt[s] \in {"connected", "closed"} =>
              /\ sockTok[s] # NoToken
              /\ ~jwtVerify(sockTok[s]).threw
              /\ sockDoc[s] = "active"
              /\ sockErr[s] = 0
        /\ sockSt[s] \notin {"connected", "closed"} =>
              /\ userSockets[s] = NoUser
              /\ \A u \in Users : connectedUsers[u] # s
              /\ sockRooms[s] = {}
              /\ joinPc[s] = "none"
              /\ ~handlerRan[s]
              /\ ~Established(s)
        /\ sockSt[s] = "refused" => sockErr[s] = 1
        /\ (sockSt[s] \notin {"idle", "authLookup"}
              /\ (sockTok[s] = NoToken \/ jwtVerify(sockTok[s]).threw
                    \/ sockDoc[s] \in {"missing", "inactive"}))
              => sockSt[s] = "refused"

\* C6 witness: one handshake was refused for an inactive identity while
\* another connection is established and has had an event handled.
C6_Witness ==
    \E s, x \in Sockets :
        /\ sockSt[s] = "refused" /\ sockDoc[s] = "inactive"
        /\ sockSt[x] = "connected" /\ handlerRan[x]

\* C7: when joinUserChats completes on a live connection, the connection is
\* in its private channel, and in the channel of room R exactly if R is
\* active and the identity's own entry in R is active at that instant.
C7_JoinedIffOwnMembership ==
    [][\A s \in Sockets :
          (joinPc[s] = "finding" /\ joinPc'[s] = "done" /\ Live(s)) =>
              /\ userChannel(sockUser[s]) \in sockRooms'[s]
              /\ \A r \in Rooms :
                    chatChannel(r) \in sockRooms'[s] <=> MemberNow(sockUser[s], r)]_vars

\* C8: once the process has exited, disconnect cleanup has run exactly once
\* for every connection that was established.
C8_CleanupOncePerConnection ==
    /\ \A s \in Sockets : cleanups[s] <= 1
    /\ procState = "exited" =>
          \A s \in Sockets : Established(s) => cleanups[s] = 1

\* the most recently established connection of u
Latest(u) ==
    {s \in Sockets : /\ Established(s) /\ sockUser[s] = u
                     /\ \A x \in Sockets :
                           (Established(x) /\ sockUser[x] = u) => connSeq[x] <= connSeq[s]}

\* C9: the identity-to-connection map holds only live connections of the
\* identity, and points to the identity's latest connection while it is live.
C9_LastConnectionWins ==
    \A u \in Users :
        /\ connectedUsers[u] # NoSock =>
              Live(connectedUsers[u]) /\ sockUser[connectedUsers[u]] = u
        /\ \A s \in Latest(u) : Live(s) => connectedUsers[u] = s

\* C10: emitToUser reaches live connections of the identity only, drops the
\* event only if the identity has none, and getUserStatus tells whether the
\* identity has a live connection.
C10_EmitAndStatusFollowLiveness ==
    /\ \A u \in Users : getUserStatus(u) <=> LiveOf(u) # {}
    /\ lastEmit.user # NoUser =>
          /\ lastEmit.to \subseteq lastEmit.live
          /\ lastEmit.to = {} => lastEmit.live = {}

(***************************************************************************)
(* Presence properties.                                                    *)
(***************************************************************************)
\* u and v are both active participants of one active room
ShareActiveRoom(u, v) == \E r \in Rooms : MemberNow(u, r) /\ MemberNow(v, r)

\* C11: a connected contact that shares an active room with A receives A's
\* presence updates in order: the offline update of a connection of A is
\* never delivered to it while the online update of that same connection is
\* still to be delivered.
C11_PresenceInOrder ==
    [][\A p \in presTasks :
          (/\ p.pc = "find" /\ ~p.isOnline /\ presTasks' = presTasks \ {p}
           /\ \E x \in LiveSockets :
                 sockUser[x] # p.user /\ ShareActiveRoom(p.user, sockUser[x]))
          => ~\E q \in presTasks : q.sock = p.sock /\ q.isOnline]_vars

(***************************************************************************)
(* Guardian notification properties.                                       *)
(***************************************************************************)
\* C12: for every text send that moderation blocked, on either path, the
\* guardian notifier was scheduled if the sender has a guardian contact, and
\* no alert is sent for a sender that has none.
C12_BlockedSchedulesGuardianAlert ==
    \A t \in Sends :
        (tasks[t].outcome = "blocked" /\ tasks[t].mtype = "text") =>
            /\ hasParentEmail(tasks[t].user) => tasks[t].alert # "none"
            /\ ~hasParentEmail(tasks[t].user) =>
                  tasks[t].alert \notin {"findChat", "sending", "sent", "failed"}

(***************************************************************************)
(* Input validation properties.                                            *)
(***************************************************************************)
\* C13: a send without a room identifier, or whose content is empty after
\* trimming, never reaches the classifier (no call is in flight or answered
\* for it) and ends as invalid input.
C13_InvalidBeforeModeration ==
    \A t \in Sends :
        (tasks[t].chat = NoRoom \/ Trim(tasks[t].content) = "") =>
            /\ tasks[t].pc # "moderating"
            /\ tasks[t].resp = "none"
            /\ tasks[t].pc = "done" => tasks[t].outcome = "invalid"

\* every event emitted on behalf of request t
EventsOf(t) == {e \in emitted : e.task = t}

\* the messageBlocked event of request t on its sender's connection
BlockedResponse(t) == Ev("messageBlocked", tasks[t].sock, t, tasks[t].user, FALSE)

\* C14: once the guardian notifier of a blocked send is scheduled, and at
\* every later point of its work (lookups, delivery, failure, or no progress
\* at all), the send has already ended blocked and its blocked response has
\* been emitted to the sender's connection; that response is the only event
\* the request ever produces, whatever the notifier's outcome.
C14_BlockedResponseFirstAndOnly ==
    \A t \in Sends :
        /\ tasks[t].alert # "none" =>
              /\ tasks[t].pc = "done" /\ tasks[t].outcome = "blocked"
              /\ tasks[t].kind = "sockSend"
              /\ Live(tasks[t].sock) => BlockedResponse(t) \in emitted
        /\ tasks[t].outcome = "blocked" =>
              EventsOf(t) \subseteq {BlockedResponse(t)}

\* C14 witness: a blocked socket send whose guardian alert failed to be
\* delivered, and another whose notifier has not started yet.
C14_Witness ==
    \E t, x \in Sends :
        /\ tasks[t].outcome = "blocked" /\ tasks[t].alert = "failed"
        /\ BlockedResponse(t) \in emitted
        /\ tasks[x].outcome = "blocked" /\ tasks[x].alert = "scheduled"

(***************************************************************************)
(* Delivery properties.                                                    *)
(***************************************************************************)
\* the acknowledgment of request t on its sender's connection
Ack(t) == Ev("messageSent", tasks[t].sock, t, tasks[t].user, FALSE)

\* C15: for a socket send the steps come in order: nothing is emitted before
\* the record is stored; between the store and the room update the record
\* exists but nothing has been fanned out or acknowledged; newMessage is
\* fanned out only once the record is stored and the room's last-message
\* pointer is set; and the acknowledgment exists only for a request that
\* stored its record, updated the room and fanned newMessage out.
C15_StoreUpdateFanoutAck ==
    \A t \in Sends :
        tasks[t].kind = "sockSend" =>
            /\ tasks[t].pc \in {"moderating", "access", "saving"} =>
                  StoredBy(t) = {} /\ EventsOf(t) = {}
            /\ tasks[t].pc \in {"populating", "chatSaving"} =>
                  StoredBy(t) = {tasks[t].msg} /\ EventsOf(t) = {}
            /\ NewMessagesOf(t) # {} =>
                  /\ StoredBy(t) = {tasks[t].msg}
                  /\ chatLast[tasks[t].chat] # 0
                  /\ tasks[t].outcome = "sent"
            /\ Ack(t) \in emitted =>
                  /\ tasks[t].outcome = "sent"
                  /\ StoredBy(t) = {tasks[t].msg}
                  /\ chatLast[tasks[t].chat] # 0
                  /\ NewMessagesOf(t) =
                        {Ev("newMessage", x, t, tasks[t].user, FALSE) :
                            x \in InChannel(chatChannel(tasks[t].chat))}
            /\ tasks[t].outcome = "sent" => Ack(t) \in emitted

\* C15 witness: one socket send is acknowledged while another has stored
\* its record and not yet updated the room.
C15_Witness ==
    \E t, x \in Sends :
        /\ tasks[t].kind = "sockSend" /\ Ack(t) \in emitted
        /\ tasks[x].kind = "sockSend" /\ tasks[x].pc = "chatSaving"

\* the generic failure of request t on its sender's connection
FailureResponse(t) == Ev("error", tasks[t].sock, t, tasks[t].user, FALSE)

C17_FanoutReachesActiveMembers ==
    [][\A t \in TaskIds :
          (/\ tasks[t].kind \in {"sockSend", "restSend"}
           /\ tasks[t].pc = "chatSaving"
           /\ tasks'[t].outcome = "sent")
          => \A u \in Users :
                (MemberNow(u, tasks[t].chat) /\ LiveOf(u) # {})
                => \E s \in LiveOf(u) :
                      Ev("newMessage", s, t, tasks[t].user, FALSE) \in emitted']_vars

\* the mark-read calls that completed their update
MarkReadDone(t) ==
    t \in TaskIds /\ tasks[t].kind = "sockRead" /\ tasks[t].outcome = "ok"

\* two mark-read calls on behalf of the same identity with the same room and
\* the same message-id set
SameMarkRead(t0, t) ==
    /\ tasks[t0].user = tasks[t].user
    /\ tasks[t0].chat = tasks[t].chat
    /\ tasks[t0].unread = tasks[t].unread

\* C18: a mark-read update leaves the identity exactly once in the read-set
\* of every listed message of the room and changes nothing else in the
\* store; when a call of the same identity with the same room and the same
\* message-id set has completed before, the update changes nothing at all.
C18_MarkReadIdempotent ==
    [][\A t \in TaskIds :
          (/\ tasks[t].kind = "sockRead"
           /\ tasks[t].pc = "updating"
           /\ tasks'[t].outcome = "ok")
          => LET rec == tasks[t]
                 listed == {m \in rec.unread : messages[m].chat = rec.chat}
             IN /\ Len(messages') = Len(messages)
                /\ \A m \in 1..Len(messages) :
                      messages'[m] =
                         [messages[m] EXCEPT !.readBy[rec.user] =
                             IF m \in listed THEN 1 ELSE @]
                /\ <<userActive, chatActive, participants, chatLast>>' =
                      <<userActive, chatActive, participants, chatLast>>
                /\ (\E t0 \in TaskIds \ {t} : MarkReadDone(t0) /\ SameMarkRead(t0, t))
                      => messages' = messages]_vars

\* two completed mark-read calls with the same identity, room and non-empty
\* message-id set, the first of which wrote the read-set; the identity is
\* in the read-set of each listed message once
C18_Witness ==
    \E t0 \in TaskIds, t \in TaskIds :
        /\ t0 < t
        /\ MarkReadDone(t0) /\ MarkReadDone(t)
        /\ SameMarkRead(t0, t)
        /\ tasks[t0].unread # {}
        /\ tasks[t0].wrote /\ ~tasks[t].wrote
        /\ \A m \in tasks[t].unread : messages[m].readBy[tasks[t].user] = 1

\* the (identity, emoji) pairs a reactions array holds
ReactionSet(reactions) == {k \in ReactionKeys : reactions[k] > 0}

\* t follows t0: both are reaction requests of the same identity with the
\* same emoji on the same message, t0 saved onto the array it had read, and
\* t read the array as t0 left it
Successive(t0, t) ==
    /\ tasks[t0].kind = "react" /\ tasks[t0].wrote
    /\ tasks[t0].user = tasks[t].user
    /\ tasks[t0].emoji = tasks[t].emoji
    /\ tasks[t0].msgRef = tasks[t].msgRef
    /\ tasks[t0].saved.rv = tasks[t0].mdoc.rv + 1
    /\ tasks[t].mdoc = tasks[t0].saved

\* C19: when the second of two successive reaction requests of one identity
\* with one emoji is saved (onto the array it read), the message's set of
\* (identity, emoji) reactions is what it was before the first request.
C19_ToggleTwiceRestores ==
    [][\A t \in TaskIds, t0 \in TaskIds :
          (/\ tasks[t].kind = "react" /\ tasks[t].pc = "saving"
           /\ tasks'[t].wrote
           /\ messages[tasks[t].msgRef].rv = tasks[t].mdoc.rv
           /\ t0 # t
           /\ Successive(t0, t))
          => ReactionSet(messages'[tasks[t].msgRef].reactions)
                = ReactionSet(tasks[t0].mdoc.reactions)]_vars

\* the edit requests
Edits == {t \in TaskIds : tasks[t].kind = "edit"}
\* the request passed the sender check of editMessage (its age was taken)
BySender(t) == tasks[t].user = messages[tasks[t].msgRef].sender
\* the edit was accepted: it is being saved or was saved
EditAccepted(t) == tasks[t].pc \in {"saving", "findChat"} \/ tasks[t].outcome = "ok"

\* C20: an edit request of the sender that reaches the time check is
\* rejected and writes nothing when the message is older than 15 minutes
\* (16), and is accepted when it is younger (14); a request of anyone else is
\* never accepted and writes nothing; a stored message is changed only by an
\* accepted edit of its sender inside the window.
C20_EditWindow ==
    /\ \A t \in Edits :
          /\ ~BySender(t) => ~EditAccepted(t) /\ ~tasks[t].wrote
          /\ (BySender(t) /\ tasks[t].age > editTimeLimit)
                => tasks[t].outcome = "expired" /\ ~tasks[t].wrote
          /\ (BySender(t) /\ tasks[t].age > 0 /\ tasks[t].age < editTimeLimit)
                => EditAccepted(t)
    /\ \A m \in 1..Len(messages) :
          (messages[m].isEdited \/ messages[m].content # "hi")
          => \E t \in Edits :
                /\ tasks[t].msgRef = m /\ tasks[t].wrote /\ BySender(t)
                /\ tasks[t].age < editTimeLimit
                /\ messages[m].content = Trim(tasks[t].content)

\* the sender's edit at 16 minutes was rejected and the sender's edit at 14
\* minutes was saved and announced
C20_Witness ==
    \E t1 \in Edits, t2 \in Edits :
        /\ BySender(t1) /\ tasks[t1].age = 16 /\ tasks[t1].outcome = "expired"
        /\ BySender(t2) /\ tasks[t2].age = 14 /\ tasks[t2].outcome = "ok"
        /\ messages[tasks[t2].msgRef].isEdited

\* the delete requests that passed the permission check
DeletesAllowed ==
    {t \in TaskIds : /\ tasks[t].kind = "deleteMsg"
                     /\ (tasks[t].pc = "saving" \/ tasks[t].wrote)}

\* C21: a delete request passes the permission check, and so deletes the
\* message, only when the requester is the sender of the message or holds
\* the moderator or admin role in the chat document the check read; a
\* deleted message was deleted by such a request.
C21_DeleteOnlySenderOrModerator ==
    /\ \A t \in DeletesAllowed :
          \/ messages[tasks[t].msgRef].sender = tasks[t].user
          \/ canModerate(tasks[t].snap.parts, tasks[t].user)
    /\ \A m \in 1..Len(messages) :
          messages[m].isDeleted => \E t \in DeletesAllowed :
                                      tasks[t].msgRef = m /\ tasks[t].wrote

\* the messageEdited events of an edit request
EditedEvents(t) == {e \in emitted : e.ev = "messageEdited" /\ e.task = t}

\* C22: an edit that gets as far as the controller's lookup has had its new
\* text put to the classifier; an edit whose new text the classifier flags
\* unsafe is rejected as blocked, writes nothing and emits no messageEdited,
\* so the stored content is never the text of a flagged edit.
C22_EditModerated ==
    /\ \A t \in Edits :
          /\ (tasks[t].pc \in {"findMsg", "saving", "findChat"}
                \/ tasks[t].wrote \/ EditedEvents(t) # {})
                => /\ tasks[t].resp \in ClassifierOutcomes
                   /\ tasks[t].verdict =
                         sexualContentMiddleware(tasks[t].content, tasks[t].resp)
          /\ tasks[t].resp = "unsafe"
                => /\ tasks[t].outcome = "blocked"
                   /\ ~tasks[t].wrote
                   /\ EditedEvents(t) = {}
    /\ \A m \in 1..Len(messages) :
          messages[m].isEdited
          => \E t \in Edits : /\ tasks[t].msgRef = m /\ tasks[t].wrote
                              /\ tasks[t].resp \in ClassifierOutcomes \ {"unsafe"}

\* a flagged edit was rejected and left the message as it was
C22_Witness ==
    \E t \in Edits :
        /\ BySender(t)
        /\ tasks[t].resp = "unsafe" /\ tasks[t].outcome = "blocked"
        /\ ~messages[tasks[t].msgRef].isEdited
        /\ messages[tasks[t].msgRef].content = "hi"

\* the handlers of inbound socket events that failed in an awaited call
FailedSocketHandlers ==
    {t \in TaskIds : tasks[t].kind \in {"sockSend", "sockRead"} /\ tasks[t].dbError}

\* C23: when the handler of an inbound event fails, the connection the event
\* came from is still connected and has received an error event for it.
C23_HandlerFailureReported ==
    \A t \in FailedSocketHandlers :
        /\ Live(tasks[t].sock)
        /\ \E e \in emitted :
              e.ev = "error" /\ e.to = tasks[t].sock /\ e.task = t

\* C24: the process ends only by the graceful shutdown, after every
\* connection has ended; no step taken for an inbound event of a connection
\* ends the process while a connection is open.
C24_EventNeverEndsProcess ==
    [][(procState # "exited" /\ procState' = "exited")
          => /\ procState = "closing"
             /\ \A s \in Sockets : sockSt[s] \notin {"authLookup", "connected"}]_vars

AlertsFinished ==
    {t \in Sends : /\ tasks[t].outcome = "blocked"
                   /\ tasks[t].alert \in {"sent", "failed", "skipped", "error"}}

\* C26: once the guardian-alert callback of a blocked message has ended, an
\* incident entry has been logged for the message, and the entry says the
\* guardian was notified exactly when the alert was delivered.
C26_IncidentLoggedWithTrueFlag ==
    \A t \in AlertsFinished :
        /\ tasks[t].incident.logged
        /\ tasks[t].incident.parentNotified <=> tasks[t].alert = "sent"

\* the next step of the sendMessage handler of request t
SendStep(t) ==
    \/ \E resp \in ClassifierOutcomes : SockModerate(t, resp)
    \/ SockAccess(t)
    \/ SockSave(t)
    \/ SockPopulate(t)
    \/ SockChatSave(t)

\* the socket sends whose connection has closed
Orphaned == {t \in Sends : tasks[t].kind = "sockSend" /\ ~Live(tasks[t].sock)}

\* C27: a send whose connection has closed goes on: while it is unfinished
\* its next step can be taken, and once it has ended, approved, with the
\* sender an active member and no database failure, its message is stored
\* and every open connection in the channel of the room has its newMessage.
C27_DisconnectDoesNotCancelSend ==
    \A t \in Orphaned :
        /\ tasks[t].pc # "done" => ENABLED SendStep(t)
        /\ (/\ tasks[t].pc = "done"
            /\ tasks[t].outcome # "invalid"
            /\ ~tasks[t].verdict.blocked
            /\ ~tasks[t].dbError
            /\ MemberNow(tasks[t].user, tasks[t].chat))
           => /\ tasks[t].outcome = "sent"
              /\ StoredBy(t) # {}
              /\ \A x \in InChannel(chatChannel(tasks[t].chat)) :
                    Ev("newMessage", x, t, tasks[t].user, FALSE) \in emitted

\* a send was stored and fanned out to the other member's open connection
\* after its own connection had closed (it got no acknowledgment)
C27_Witness ==
    \E t \in Orphaned :
        /\ tasks[t].outcome = "sent"
        /\ StoredBy(t) # {}
        /\ \A e \in emitted : e.task = t => e.ev # "messageSent"
        /\ \E x \in LiveSockets :
              /\ sockUser[x] # tasks[t].user
              /\ Ev("newMessage", x, t, tasks[t].user, FALSE) \in emitted

\* t1 and t2 are sendMessage events of one connection, received in this order
InReceiptOrder(t1, t2) ==
    /\ t1 < t2
    /\ tasks[t1].kind = "sockSend" /\ tasks[t2].kind = "sockSend"
    /\ tasks[t1].sock = tasks[t2].sock

\* C28: of two sends of one connection that were both stored and broadcast,
\* the one received first was stored first.
C28_SendsKeepReceiptOrder ==
    \A t1 \in TaskIds, t2 \in TaskIds :
        (/\ InReceiptOrder(t1, t2)
         /\ tasks[t1].outcome = "sent" /\ tasks[t2].outcome = "sent")
        => tasks[t1].msg < tasks[t2].msg

\* the identities the presenceUpdate of task t was delivered to
PresenceRecipients(t) ==
    {sockUser[e.to] : e \in {x \in emitted : x.ev = "presenceUpdate" /\ x.task = t}}

\* the other identities that are active members of an active room of which u
\* is an active member too, and that have a connection to deliver to
ActiveContacts(u) ==
    {c \in Users \ {u} : ShareActiveRoom(u, c) /\ InChannel(userChannel(c)) # {}}

\* C29: updatePresence stores the given status for the identity, and its
\* presenceUpdate goes to exactly the other identities that share an active
\* room with it as active members at that moment.
C29_PresenceToActiveContacts ==
    [][\A t \in TaskIds :
          /\ (At(t, "updatePresence", "write") /\ tasks'[t].pc = "find")
                => presenceStatus'[tasks[t].user] = tasks[t].content
          /\ (At(t, "updatePresence", "find") /\ tasks'[t].pc = "done")
                => PresenceRecipients(t)' = ActiveContacts(tasks[t].user)]_vars

Uploads == {t \in TaskIds : tasks[t].kind = "upload"}

\* C30: an image the classifier flags as inappropriate is not stored and not
\* broadcast as newMessage.
C30_FlaggedImageNeverStored ==
    \A t \in Uploads :
        monitorImageContent(checkImage(tasks[t].content)).blocked =>
            /\ ~tasks[t].wrote
            /\ NewMessagesOf(t) = {}

\* C31: two sends over the same path that failed for a non-moderation reason
\* got the same response, whatever error was thrown inside.
C31_FailureResponseHidesError ==
    \A t1 \in Sends, t2 \in Sends :
        (/\ tasks[t1].kind = tasks[t2].kind
         /\ tasks[t1].outcome = "failed" /\ tasks[t2].outcome = "failed")
        => tasks[t1].response = tasks[t2].response

\* C32: a soft-deleted message stays deleted and keeps its stored content,
\* and no edit or delete request writes to it any more, an edit that had
\* read the message before the deletion included.
C32_DeletionIsTerminal ==
    [][\A m \in 1..Len(messages) :
          messages[m].isDeleted =>
              /\ messages'[m].isDeleted
              /\ messages'[m].content = messages[m].content
              /\ \A t \in TaskIds :
                    (/\ tasks[t].kind \in {"edit", "deleteMsg"}
                     /\ tasks[t].msgRef = m
                     /\ ~tasks[t].wrote)
                    => ~tasks'[t].wrote]_vars

\* C33: every send that stored a Message record had put its content to the
\* classifier first (an answer or an outage is recorded for the request),
\* whatever message type the client declared.
C33_StoredContentWasSubmitted ==
    \A t \in Sends :
        tasks[t].wrote => (tasks[t].calls >= 1 /\ tasks[t].resp # "none")

\* C34: at the moment a newMessage event is delivered to a connection, the
\* identity of that connection is an active member of the message's room in
\* the membership store.
C34_NewMessageOnlyToMembers ==
    [][\A e \in emitted' \ emitted :
          e.ev = "newMessage" => MemberNow(sockUser[e.to], tasks[e.task].chat)]_vars

\* C35: the two connection maps agree: userSockets has an entry exactly for
\* the live authenticated connections, an entry of connectedUsers points to
\* a connection that userSockets maps back to the same identity, and an
\* identity without an entry in connectedUsers has no live connection.
C35_ConnectionMapsConsistent ==
    /\ \A s \in Sockets : (userSockets[s] # NoUser) <=> Live(s)
    /\ \A s \in LiveSockets : userSockets[s] = sockUser[s]
    /\ \A u \in Users :
          connectedUsers[u] # NoSock => userSockets[connectedUsers[u]] = u
    /\ \A u \in Users : connectedUsers[u] = NoSock => LiveOf(u) = {}

\* C36: whenever no updateUserOnlineStatus call is pending, the stored online
\* flag of every identity is true exactly if the identity has a live
\* connection.
C36_OnlineFlagFollowsConnections ==
    presTasks = {} =>
        \A u \in Users : userOnline[u] <=> (LiveOf(u) # {})

\* C37: a send whose sender got the failure response left no Message record
\* and no newMessage event.
C37_FailedSendLeavesNoTrace ==
    \A t \in Sends :
        tasks[t].outcome = "failed" =>
            /\ StoredBy(t) = {}
            /\ NewMessagesOf(t) = {}

\* the messages of room r that sends of the run stored
StoredIn(r) == {m \in 1..Len(messages) : messages[m].chat = r /\ messages[m].task # 0}

\* C38: when every send has finished and none of them failed, the
\* last-message pointer of a room is the most recently stored message of
\* that room.
C38_LastMessageIsLatest ==
    (\A t \in Sends : tasks[t].pc = "done" /\ tasks[t].outcome # "failed") =>
        \A r \in Rooms :
            StoredIn(r) # {} =>
                /\ chatLast[r] \in StoredIn(r)
                /\ \A m \in StoredIn(r) : m <= chatLast[r]

\* C39: the read-set of every message holds at most one entry per identity.
C39_OneReadEntryPerIdentity ==
    \A m \in 1..Len(messages) : \A u \in Users : messages[m].readBy[u] <= 1

\* C40: a markMessagesRead event of an identity that is not an active member
\* of the room changes no message and delivers no event.
C40_MarkReadOnlyByMembers ==
    [][\A t \in TaskIds :
          (/\ At(t, "sockRead", "updating")
           /\ tasks'[t].pc = "done"
           /\ ~MemberNow(tasks[t].user, tasks[t].chat))
          => (messages' = messages /\ emitted' = emitted)]_vars

====
